---- MODULE Spec2Model ----
(***************************************************************************)
(* A model of the ExploreRepository node                                   *)
(* (src/nodes/ExploreRepository/ExploreRepository.node.ts).                *)
(*                                                                         *)
(* Strings are sequences of one-character strings, so that prefix tests,   *)
(* splitting on the separator, glob translation and name comparison are    *)
(* computed character by character, as the code does.  Absolute paths that *)
(* the operating system has resolved are sequences of entry names.         *)
(*                                                                         *)
(* The module holds several specifications over the same variables, one    *)
(* per entry point: SpecPath (validatePath called directly), SpecGlob      *)
(* (globToRegex), SpecTree (buildTree), SpecFindDirect (findFilesRecursive *)
(* called directly), SpecFind (it and the findFiles operation) and         *)
(* SpecExec (the node's execute method, item by item).                     *)
(***************************************************************************)
EXTENDS Integers, Sequences, FiniteSets, TLC

VARIABLES
    fs,         \* the filesystem: absolute path (sequence of names) -> node
    pc,         \* control position of the running entry point
    call,       \* the running call: function name and arguments
    ret,        \* what the finished call returned or threw
    stack,      \* recursion frames of buildTree / findFilesRecursive
    results,    \* findFilesRecursive's results array (shared by reference)
    lines,      \* the lines buildTree has produced so far
    fsLog,      \* filesystem accesses and predicate tests made so far, in order
    node,       \* execute: the host's side (continueOnFail, number of items)
    itemIndex,  \* execute: index of the item being processed
    returnData  \* execute: records pushed so far

vars == <<fs, pc, call, ret, stack, results, lines, fsLog, node, itemIndex, returnData>>

(***************************************************************************)
(* Strings                                                                 *)
(***************************************************************************)
Sep == "/"

StartsWith(s, p) == Len(p) <= Len(s) /\ SubSeq(s, 1, Len(p)) = p

\* s.split(sep) for a one-character separator: the pieces between the
\* places where sep stands
Split(s, sep) ==
    LET seps == { i \in 1..Len(s) : s[i] = sep }
        place(k) == CHOOSE i \in seps : Cardinality({ j \in seps : j < i }) = k - 1
        n == Cardinality(seps) + 1
    IN  [k \in 1..n |->
            SubSeq(s, IF k = 1 THEN 1 ELSE place(k - 1) + 1,
                      IF k = n THEN Len(s) ELSE place(k) - 1)]

RECURSIVE JoinWith(_, _)
JoinWith(segs, sep) ==
    IF segs = << >> THEN << >>
    ELSE IF Len(segs) = 1 THEN Head(segs)
    ELSE Head(segs) \o sep \o JoinWith(Tail(segs), sep)

(***************************************************************************)
(* path.resolve, as validatePath uses it (POSIX)                           *)
(***************************************************************************)
\* process.cwd(), already split into names: the model runs in "/"
Cwd == << >>

IsAbsolute(s) == s # << >> /\ Head(s) = Sep

\* normalizeString: "" and "." vanish, ".." drops the last name kept so far
\* and is itself dropped at the filesystem root
RECURSIVE NormalizeSegs(_, _)
NormalizeSegs(segs, acc) ==
    IF segs = << >> THEN acc
    ELSE LET s == Head(segs) IN
         IF s = << >> \/ s = <<".">> THEN NormalizeSegs(Tail(segs), acc)
         ELSE IF s = <<".", ".">>
              THEN NormalizeSegs(Tail(segs),
                                 IF acc = << >> THEN acc ELSE SubSeq(acc, 1, Len(acc) - 1))
              ELSE NormalizeSegs(Tail(segs), Append(acc, s))

\* the absolute path string of a sequence of names
PathString(segs) == <<Sep>> \o JoinWith(segs, <<Sep>>)

\* the names of path.resolve(from, to): `from` is absolute or is resolved
\* against the working directory; an absolute `to` replaces `from`
ResolveSegs(from, to) ==
    LET base == IF IsAbsolute(from) THEN << >> ELSE Cwd
        start == IF IsAbsolute(to) THEN << >> ELSE NormalizeSegs(Split(from, Sep), base)
    IN  NormalizeSegs(Split(to, Sep), start)

\* path.resolve(p)
PathResolve1(p) == PathString(ResolveSegs(p, << >>))

\* path.resolve(from, to)
PathResolve2(from, to) == PathString(ResolveSegs(from, to))

(***************************************************************************)
(* validatePath                                                            *)
(***************************************************************************)
Returned(v) == [threw |-> FALSE, value |-> v]
Threw(kind, detail) == [threw |-> TRUE, error |-> kind, detail |-> detail]

\* a plausible slip: the prefix test without the separator
validatePathNoSep(rootPath, relativePath) ==
    LET resolvedRoot == PathResolve1(rootPath)
        resolved == PathResolve2(resolvedRoot, relativePath)
    IN  IF ~StartsWith(resolved, resolvedRoot) /\ resolved # resolvedRoot
        THEN Threw("PathTraversal",
                   [attempted |-> relativePath, resolved |-> resolved, root |-> resolvedRoot])
        ELSE Returned(resolved)

\* a plausible slip: only a leading '..' refused
validatePathLeadingDots(rootPath, relativePath) ==
    LET resolvedRoot == PathResolve1(rootPath)
        resolved == PathResolve2(resolvedRoot, relativePath)
    IN  IF StartsWith(relativePath, <<".", ".">>)
        THEN Threw("PathTraversal",
                   [attempted |-> relativePath, resolved |-> resolved, root |-> resolvedRoot])
        ELSE Returned(resolved)

validatePath(rootPath, relativePath) ==
    LET resolvedRoot == PathResolve1(rootPath)
        resolved == PathResolve2(resolvedRoot, relativePath)
    IN  IF ~StartsWith(resolved, resolvedRoot \o <<Sep>>) /\ resolved # resolvedRoot
        THEN Threw("PathTraversal",
                   [attempted |-> relativePath, resolved |-> resolved, root |-> resolvedRoot])
        ELSE Returned(resolved)

(***************************************************************************)
(* Values the idle parts of the state hold                                 *)
(***************************************************************************)
NoFs == << >>
NoCall == [fn |-> "none"]
NoRet == [threw |-> FALSE, value |-> "none"]
NoNode == [continueOnFail |-> FALSE, length |-> 0, items |-> << >>]

(***************************************************************************)
(* SpecPath: validatePath called directly, as the tests call it            *)
(***************************************************************************)
\* the longest relative input, in names
MaxSegs == 4

\* names a root or a relative input is made of: empty (a doubled or trailing
\* separator), ".", "..", the root's own name, a name that has the root's name
\* as a string prefix, and a name inside the root
PathNames == { << >>, <<".">>, <<".", ".">>, <<"r">>, <<"r", "x">>, <<"a">> }

\* an input is a sequence of names; the string it stands for joins them with
\* the separator, so a leading empty name makes the string absolute
RelativeInputs == UNION { [1..k -> PathNames] : k \in 0..MaxSegs }

InputString(segs) == JoinWith(segs, <<Sep>>)

\* roots: "/r", "/r/a", "/r/" (trailing separator), "/" and the relative "r"
RootInputs ==
    { << << >>, <<"r">> >>,
      << << >>, <<"r">>, <<"a">> >>,
      << << >>, <<"r">>, << >> >>,
      << << >>, << >> >>,
      << <<"r">> >> }

InitIdle ==
    /\ ret = NoRet
    /\ results = << >>
    /\ lines = << >>
    /\ fsLog = << >>
    /\ node = NoNode
    /\ itemIndex = 0
    /\ returnData = << >>

InitPath ==
    /\ InitIdle
    /\ fs = NoFs
    /\ stack = << >>
    /\ pc = "validatePath"
    /\ \E r \in RootInputs, in \in RelativeInputs :
          call = [fn |-> "validatePath", root |-> r, input |-> in,
                  rootPath |-> InputString(r), relativePath |-> InputString(in)]

ValidatePathCall ==
    /\ pc = "validatePath"
    /\ ret' = validatePath(call.rootPath, call.relativePath)
    /\ pc' = "done"
    /\ UNCHANGED <<fs, call, stack, results, lines, fsLog, node, itemIndex, returnData>>

NextPath == ValidatePathCall

SpecPath == InitPath /\ [][NextPath]_vars

(***************************************************************************)
(* C1.  What the inputs mean, name by name, without going through strings: *)
(* the place a walk from `start` along `segs` ends.                        *)
(***************************************************************************)
RECURSIVE Walk(_, _)
Walk(start, segs) ==
    IF segs = << >> THEN start
    ELSE LET before == Walk(start, SubSeq(segs, 1, Len(segs) - 1))
             last == segs[Len(segs)]
         IN  CASE last = << >> -> before
               [] last = <<".">> -> before
               [] last = <<".", ".">> ->
                    IF before = << >> THEN before ELSE SubSeq(before, 1, Len(before) - 1)
               [] OTHER -> Append(before, last)

\* a string is absolute when it begins with the separator: when the first of
\* two or more names is empty
FromTop(segs) == Len(segs) >= 2 /\ segs[1] = << >>

WalkedRoot == Walk(IF FromTop(call.root) THEN << >> ELSE Cwd, call.root)
WalkedTarget == Walk(IF FromTop(call.input) THEN << >> ELSE WalkedRoot, call.input)

IsNamePrefix(p, s) == Len(p) <= Len(s) /\ SubSeq(s, 1, Len(p)) = p

ValidatePathDone == pc = "done" /\ call.fn = "validatePath"

\* C1: validatePath returns the resolved path iff the normalised target equals
\* the resolved root or starts with the resolved root followed by the
\* separator, and throws the path-traversal error otherwise; a walk that
\* leaves the root ('..', an absolute path outside, mixed traversal) and a
\* sibling whose name has the root's name as a string prefix are rejected,
\* '.' and nested names are accepted.
C1_ValidatePathAcceptsIffInside ==
    ValidatePathDone =>
        LET rootStr == PathString(WalkedRoot)
            targetStr == PathString(WalkedTarget)
            inside == targetStr = rootStr \/ StartsWith(targetStr, rootStr \o <<Sep>>)
        IN  /\ ~ret.threw <=> inside
            /\ ~ret.threw => ret.value = targetStr
            /\ ret.threw => ret.error = "PathTraversal"
            \* escaping walks are rejected whatever the strings look like
            /\ ~IsNamePrefix(WalkedRoot, WalkedTarget) => ret.threw
            \* below a root other than "/", staying inside is enough
            /\ (WalkedRoot # << >> /\ IsNamePrefix(WalkedRoot, WalkedTarget)) => ~ret.threw
            \* the sibling /rx of the root /r
            /\ (WalkedRoot = <<<<"r">>>> /\ WalkedTarget = <<<<"r", "x">>>>) => ret.threw
            \* '.' is the root itself
            /\ call.relativePath = <<".">> => (~ret.threw /\ ret.value = rootStr)

\* the sibling directory /rx is refused under the root /r
C1_Witness ==
    /\ ValidatePathDone
    /\ call.rootPath = <<"/", "r">>
    /\ call.relativePath = <<".", ".", "/", "r", "x">>
    /\ ret.threw
    /\ ret.detail.resolved = <<"/", "r", "x">>

(***************************************************************************)
(* globToRegex and RegExp.prototype.test                                   *)
(***************************************************************************)
\* the characters of the class [.+^${}()|[\]\\]
RegexSpecial == {".", "+", "^", "$", "{", "}", "(", ")", "|", "[", "]", "\\"}

\* s.replace(/[.+^${}()|[\]\\]/g, '\\$&'): a backslash before every special
RECURSIVE EscapeSpecial(_)
EscapeSpecial(s) ==
    IF s = << >> THEN << >>
    ELSE (IF Head(s) \in RegexSpecial THEN <<"\\", Head(s)>> ELSE <<Head(s)>>)
         \o EscapeSpecial(Tail(s))

\* s.replace(/c/g, r) for a single character c
RECURSIVE ReplaceAll(_, _, _)
ReplaceAll(s, c, r) ==
    IF s = << >> THEN << >>
    ELSE (IF Head(s) = c THEN r ELSE <<Head(s)>>) \o ReplaceAll(Tail(s), c, r)

\* a RegExp: `^${escaped}$` with the flag i
globToRegex(glob) ==
    LET escaped == ReplaceAll(ReplaceAll(EscapeSpecial(glob), "*", <<".", "*">>), "?", <<".">>)
    IN  [source |-> <<"^">> \o escaped \o <<"$">>, ignoreCase |-> TRUE]

LowerLetters ==
    <<"a", "b", "c", "d", "e", "f", "g", "h", "i", "j", "k", "l", "m",
      "n", "o", "p", "q", "r", "s", "t", "u", "v", "w", "x", "y", "z">>
UpperLetters ==
    <<"A", "B", "C", "D", "E", "F", "G", "H", "I", "J", "K", "L", "M",
      "N", "O", "P", "Q", "R", "S", "T", "U", "V", "W", "X", "Y", "Z">>

\* the position of c in seq, 0 when it is not there
IndexIn(seq, c) ==
    IF \E i \in 1..Len(seq) : seq[i] = c THEN CHOOSE i \in 1..Len(seq) : seq[i] = c ELSE 0

\* Canonicalize of the i flag (toUpperCase)
ToUpper(c) == IF IndexIn(LowerLetters, c) > 0 THEN UpperLetters[IndexIn(LowerLetters, c)] ELSE c

\* what an unescaped "." does not match (no s flag)
LineTerminators == {"\n", "\r"}

\* one atom of the pattern against one character
AtomMatches(atom, escapedAtom, c, ignoreCase) ==
    IF atom = "." /\ ~escapedAtom THEN c \notin LineTerminators
    ELSE IF ignoreCase THEN ToUpper(atom) = ToUpper(c) ELSE atom = c

\* backtracking match of a pattern body made of escaped characters, plain
\* characters, "." and atoms followed by "*", against the whole of s
RECURSIVE BodyMatches(_, _, _)
BodyMatches(p, s, ignoreCase) ==
    IF p = << >> THEN s = << >>
    ELSE LET esc == p[1] = "\\" /\ Len(p) >= 2
             atom == IF esc THEN p[2] ELSE p[1]
             after == SubSeq(p, (IF esc THEN 3 ELSE 2), Len(p))
             starred == after # << >> /\ Head(after) = "*"
         IN  IF starred
             THEN \/ BodyMatches(Tail(after), s, ignoreCase)
                  \/ /\ s # << >>
                     /\ AtomMatches(atom, esc, Head(s), ignoreCase)
                     /\ BodyMatches(p, Tail(s), ignoreCase)
             ELSE /\ s # << >>
                  /\ AtomMatches(atom, esc, Head(s), ignoreCase)
                  /\ BodyMatches(after, Tail(s), ignoreCase)

\* regex.test(name) for a pattern anchored at both ends
RegExpTest(regex, name) ==
    BodyMatches(SubSeq(regex.source, 2, Len(regex.source) - 1), name, regex.ignoreCase)

(***************************************************************************)
(* SpecGlob: globToRegex(glob).test(name), as the tests call it            *)
(***************************************************************************)
MaxGlobLen == 3
MaxNameLen == 3

GlobChars == {"a", "A", ".", "\\", "*", "?"}
NameChars == {"a", "A", ".", "\\", "\n"}

StringsOver(chars, n) == UNION { [1..k -> chars] : k \in 0..n }

InitGlob ==
    /\ InitIdle
    /\ fs = NoFs
    /\ stack = << >>
    /\ pc = "globToRegex"
    /\ \E g \in StringsOver(GlobChars, MaxGlobLen), n \in StringsOver(NameChars, MaxNameLen) :
          call = [fn |-> "globToRegex", glob |-> g, name |-> n]

GlobTest ==
    /\ pc = "globToRegex"
    /\ ret' = Returned(RegExpTest(globToRegex(call.glob), call.name))
    /\ pc' = "done"
    /\ UNCHANGED <<fs, call, stack, results, lines, fsLog, node, itemIndex, returnData>>

NextGlob == GlobTest

SpecGlob == InitGlob /\ [][NextGlob]_vars

\* the glob's meaning: "*" any run of characters, "?" any one character, every
\* other character itself, letters compared without regard to case
RECURSIVE GlobAccepts(_, _)
GlobAccepts(pattern, name) ==
    IF pattern = << >> THEN name = << >>
    ELSE CASE Head(pattern) = "*" ->
                \/ GlobAccepts(Tail(pattern), name)
                \/ (name # << >> /\ GlobAccepts(pattern, Tail(name)))
           [] Head(pattern) = "?" ->
                name # << >> /\ GlobAccepts(Tail(pattern), Tail(name))
           [] OTHER ->
                /\ name # << >>
                /\ ToUpper(Head(pattern)) = ToUpper(Head(name))
                /\ GlobAccepts(Tail(pattern), Tail(name))

GlobDone == pc = "done" /\ call.fn = "globToRegex"

\* C5: the predicate globToRegex builds accepts a name exactly when the whole
\* name matches the glob ("*" zero or more arbitrary characters, "?" exactly
\* one arbitrary character, anything else itself, case-insensitively); so "*"
\* accepts every name.
C5_GlobMatchesExactly ==
    GlobDone =>
        /\ ret.value = GlobAccepts(call.glob, call.name)
        /\ call.glob = <<"*">> => ret.value = TRUE

\* the same, for names that hold no line terminator
GlobExactOnOneLineNames ==
    (GlobDone /\ \A i \in 1..Len(call.name) : call.name[i] \notin LineTerminators) =>
        ret.value = GlobAccepts(call.glob, call.name)

(***************************************************************************)
(* The filesystem.  A node is a directory (its entries in the order the    *)
(* directory read returns them, and whether it can be read), a file (its   *)
(* content) or a symbolic link (its target).                               *)
(***************************************************************************)
DirNode(entries) == [kind |-> "dir", entries |-> entries, readable |-> TRUE]
FileNode(content) == [kind |-> "file", content |-> content]
LinkNode(target) == [kind |-> "symlink", target |-> target]

NotFound == [ok |-> FALSE]

\* path resolution by the operating system: symbolic links are followed,
\* a link met twice is a loop (ELOOP)
RECURSIVE Lookup(_, _, _, _)
Lookup(fsys, cur, rest, seen) ==
    IF cur \notin DOMAIN fsys THEN NotFound
    ELSE IF fsys[cur].kind = "symlink"
         THEN IF cur \in seen THEN NotFound
              ELSE Lookup(fsys, fsys[cur].target, rest, seen \cup {cur})
    ELSE IF rest = << >> THEN [ok |-> TRUE, path |-> cur]
    ELSE IF fsys[cur].kind # "dir" THEN NotFound
    ELSE Lookup(fsys, Append(cur, Head(rest)), Tail(rest), seen)

\* fs.statSync(path): follows links, throws when the path leads nowhere
StatSync(fsys, path) ==
    LET r == Lookup(fsys, << >>, path, {})
    IN  IF r.ok
        THEN [ok |-> TRUE, kind |-> fsys[r.path].kind, real |-> r.path,
              size |-> IF fsys[r.path].kind = "file" THEN Len(fsys[r.path].content) ELSE 0]
        ELSE NotFound

\* getStats: null instead of an exception
getStats(fsys, path) == StatSync(fsys, path)

\* fs.readdirSync(path, {withFileTypes: true}): the entries in directory
\* order, each with the kind the entry itself has (a link is a link); throws
\* when the path is no directory or cannot be read
ReaddirSync(fsys, path) ==
    LET r == Lookup(fsys, << >>, path, {})
    IN  IF ~r.ok THEN NotFound
        ELSE IF fsys[r.path].kind # "dir" \/ ~fsys[r.path].readable THEN NotFound
        ELSE [ok |-> TRUE,
              entries |-> [i \in 1..Len(fsys[r.path].entries) |->
                              [name |-> fsys[r.path].entries[i],
                               kind |-> fsys[Append(r.path, fsys[r.path].entries[i])].kind]]]

\* a plausible slip: the kind taken from statSync, which follows links
IsDirectoryOrLink(entry) == entry.kind \in {"dir", "symlink"}

\* Dirent.isDirectory()
IsDirectory(entry) == entry.kind = "dir"

\* path.join(dirPath, entry.name), on resolved paths
PathJoin(dirPath, name) == Append(dirPath, name)

RECURSIVE CommonPrefixLen(_, _)
CommonPrefixLen(a, b) ==
    IF a = << >> \/ b = << >> \/ Head(a) # Head(b) THEN 0
    ELSE 1 + CommonPrefixLen(Tail(a), Tail(b))

\* a plausible slip: the path taken relative to the directory being read
PathRelativeToParent(from, to) == to[Len(to)]

\* path.relative(from, to), on resolved paths: ".." for every name of `from`
\* beyond the common prefix, then the rest of `to`
PathRelative(from, to) ==
    LET k == CommonPrefixLen(from, to)
        ups == [i \in 1..(Len(from) - k) |-> <<".", ".">>]
    IN  JoinWith(ups \o SubSeq(to, k + 1, Len(to)), <<Sep>>)

\* an access: what was done to which path, while which item was processed
\* and with how many results collected
Access(op, path) == [op |-> op, path |-> path, n |-> Len(results), item |-> itemIndex]

(***************************************************************************)
(* String.prototype.localeCompare: punctuation before letters, letters in  *)
(* alphabetical order whatever their case, and for strings equal up to     *)
(* case the lower-case letter first                                        *)
(***************************************************************************)
Punctuation == <<"_", "-", ".">>

PrimaryKey(c) ==
    IF IndexIn(LowerLetters, c) > 0 THEN Len(Punctuation) + IndexIn(LowerLetters, c)
    ELSE IF IndexIn(UpperLetters, c) > 0 THEN Len(Punctuation) + IndexIn(UpperLetters, c)
    ELSE IndexIn(Punctuation, c)

CaseKey(c) == IF IndexIn(UpperLetters, c) > 0 THEN 1 ELSE 0

RECURSIVE LexCompare(_, _)
LexCompare(a, b) ==
    IF a = << >> THEN (IF b = << >> THEN 0 ELSE -1)
    ELSE IF b = << >> THEN 1
    ELSE IF Head(a) < Head(b) THEN -1
    ELSE IF Head(a) > Head(b) THEN 1
    ELSE LexCompare(Tail(a), Tail(b))

localeCompare(a, b) ==
    LET pa == [i \in 1..Len(a) |-> PrimaryKey(a[i])]
        pb == [i \in 1..Len(b) |-> PrimaryKey(b[i])]
        primary == LexCompare(pa, pb)
    IN  IF primary # 0 THEN primary
        ELSE LexCompare([i \in 1..Len(a) |-> CaseKey(a[i])], [i \in 1..Len(b) |-> CaseKey(b[i])])

(***************************************************************************)
(* buildTree                                                               *)
(***************************************************************************)
\* the comparator of entries.sort: directories first, then by name
CompareEntries(a, b) ==
    IF IsDirectory(a) /\ ~IsDirectory(b) THEN -1
    ELSE IF ~IsDirectory(a) /\ IsDirectory(b) THEN 1
    ELSE localeCompare(a.name, b.name)

\* x put into an already sorted sequence, after everything not greater
RECURSIVE InsertSorted(_, _)
InsertSorted(x, sorted) ==
    IF sorted = << >> THEN <<x>>
    ELSE IF CompareEntries(x, Head(sorted)) < 0 THEN <<x>> \o sorted
    ELSE <<Head(sorted)>> \o InsertSorted(x, Tail(sorted))

RECURSIVE SortFrom(_, _)
SortFrom(entries, sorted) ==
    IF entries = << >> THEN sorted
    ELSE SortFrom(Tail(entries), InsertSorted(Head(entries), sorted))

\* a plausible slip: the entries left in directory order
SortEntriesUnsorted(entries) == entries

\* entries.sort(comparator)
SortEntries(entries) == SortFrom(entries, << >>)

NodeModules == <<"n", "o", "d", "e", "_", "m", "o", "d", "u", "l", "e", "s">>

\* the entries both traversals skip
Ignored(name) == StartsWith(name, <<".">>) \/ name = NodeModules

\* a plausible slip: the connectors chosen on the entries before the filter
FilterNothing(entries) == entries

RECURSIVE FilterVisible(_)
FilterVisible(entries) ==
    IF entries = << >> THEN << >>
    ELSE (IF Ignored(Head(entries).name) THEN << >> ELSE <<Head(entries)>>)
         \o FilterVisible(Tail(entries))

\* the box-drawing characters, by code point
Tee == "U+251C"
Corner == "U+2514"
Dash == "U+2500"
Bar == "U+2502"

ConnectorLast == <<Corner, Dash, Dash, " ">>
ConnectorOther == <<Tee, Dash, Dash, " ">>
ChildPrefixLast == <<" ", " ", " ", " ">>
ChildPrefixOther == <<Bar, " ", " ", " ">>
\* the text of the placeholder, as one piece
PermissionDenied == <<"[Permission denied]">>

TreeFrame(dirPath, currentDepth, prefix) ==
    [dirPath |-> dirPath, currentDepth |-> currentDepth, prefix |-> prefix,
     stage |-> "enter", entries |-> << >>, index |-> 1]

\* a plausible slip: a return that unwinds the whole traversal, as an error
\* that nobody catches would
ReturnFromTraversal ==
    /\ stack' = << >>
    /\ pc' = call.returnTo

\* the top frame returns: its caller goes on, or the entry point is done
ReturnFromFrame ==
    /\ stack' = Tail(stack)
    /\ pc' = IF Len(stack) = 1 THEN call.returnTo ELSE pc

ReplaceTop(frame) == <<frame>> \o Tail(stack)

\* entering buildTree: the depth test, the directory read, sort and filter
TreeEnter ==
    /\ pc = "buildTree"
    /\ stack # << >>
    /\ Head(stack).stage = "enter"
    /\ LET f == Head(stack)
           rd == ReaddirSync(fs, f.dirPath)
       IN  IF f.currentDepth > call.maxDepth
           THEN /\ ReturnFromFrame
                /\ UNCHANGED <<lines, fsLog>>
           ELSE /\ fsLog' = Append(fsLog, Access("readdir", f.dirPath))
                /\ IF ~rd.ok
                   THEN /\ lines' = Append(lines, f.prefix \o PermissionDenied)
                        /\ ReturnFromFrame
                   ELSE /\ lines' = lines
                        /\ stack' = ReplaceTop([f EXCEPT !.stage = "loop",
                                                         !.entries = FilterVisible(SortEntries(rd.entries))])
                        /\ pc' = pc
    /\ UNCHANGED <<fs, call, ret, results, node, itemIndex, returnData>>

\* a plausible slip: the recursion stopped one level early
MayDescendEarly(currentDepth, maxDepth) == currentDepth + 1 < maxDepth

\* currentDepth < maxDepth
MayDescend(currentDepth, maxDepth) == currentDepth < maxDepth

\* one round of entries.forEach, or its end.  The lines of a subdirectory
\* are spliced in right after the subdirectory's own line, so the lines are
\* produced in the order of the final array.
TreeLoop ==
    /\ pc = "buildTree"
    /\ stack # << >>
    /\ Head(stack).stage = "loop"
    /\ LET f == Head(stack) IN
       IF f.index > Len(f.entries)
       THEN /\ ReturnFromFrame
            /\ lines' = lines
       ELSE LET entry == f.entries[f.index]
                isLast == f.index = Len(f.entries)
                connector == IF isLast THEN ConnectorLast ELSE ConnectorOther
                childPrefix == IF isLast THEN ChildPrefixLast ELSE ChildPrefixOther
                next == [f EXCEPT !.index = f.index + 1]
            IN  /\ pc' = pc
                /\ IF IsDirectory(entry)
                   THEN /\ lines' = Append(lines, f.prefix \o connector \o entry.name \o <<Sep>>)
                        /\ stack' = IF MayDescend(f.currentDepth, call.maxDepth)
                                    THEN <<TreeFrame(PathJoin(f.dirPath, entry.name),
                                                     f.currentDepth + 1,
                                                     f.prefix \o childPrefix)>>
                                         \o ReplaceTop(next)
                                    ELSE ReplaceTop(next)
                   ELSE /\ lines' = Append(lines, f.prefix \o connector \o entry.name)
                        /\ stack' = ReplaceTop(next)
    /\ UNCHANGED <<fs, call, ret, results, fsLog, node, itemIndex, returnData>>

(***************************************************************************)
(* findFilesRecursive                                                      *)
(***************************************************************************)
DefaultMaxResults == 1000

\* a plausible slip: the cap tested one too late
CapReachedLate(n, maxResults) == n > maxResults

\* results.length >= maxResults
CapReached(n, maxResults) == n >= maxResults

FindFrame(dirPath) == [dirPath |-> dirPath, stage |-> "enter", entries |-> << >>, index |-> 1]

\* entering findFilesRecursive: the cap test and the directory read
FindEnter ==
    /\ pc = "findFilesRecursive"
    /\ stack # << >>
    /\ Head(stack).stage = "enter"
    /\ LET f == Head(stack)
           rd == ReaddirSync(fs, f.dirPath)
       IN  IF CapReached(Len(results), call.maxResults)
           THEN /\ ReturnFromFrame
                /\ fsLog' = fsLog
           ELSE /\ fsLog' = Append(fsLog, Access("readdir", f.dirPath))
                /\ IF ~rd.ok
                   THEN ReturnFromFrame
                   ELSE /\ stack' = ReplaceTop([f EXCEPT !.stage = "loop", !.entries = rd.entries])
                        /\ pc' = pc
    /\ UNCHANGED <<fs, call, ret, results, lines, node, itemIndex, returnData>>

\* a plausible slip: the pattern tested on every entry, directories included
DescendsNever(entry) == FALSE

\* the branch of the loop body that recurses
Descends(entry) == IsDirectory(entry)

\* one round of the for loop, or its end
FindLoop ==
    /\ pc = "findFilesRecursive"
    /\ stack # << >>
    /\ Head(stack).stage = "loop"
    /\ LET f == Head(stack) IN
       IF f.index > Len(f.entries) \/ CapReached(Len(results), call.maxResults)
       THEN /\ ReturnFromFrame
            /\ UNCHANGED <<results, fsLog>>
       ELSE LET entry == f.entries[f.index]
                fullPath == PathJoin(f.dirPath, entry.name)
                relativePath == PathRelative(call.rootPath, fullPath)
                next == [f EXCEPT !.index = f.index + 1]
            IN  /\ pc' = pc
                /\ IF Ignored(entry.name)
                   THEN /\ stack' = ReplaceTop(next)
                        /\ UNCHANGED <<results, fsLog>>
                   ELSE IF Descends(entry)
                   THEN /\ stack' = <<FindFrame(fullPath)>> \o ReplaceTop(next)
                        /\ UNCHANGED <<results, fsLog>>
                   ELSE /\ stack' = ReplaceTop(next)
                        /\ fsLog' = Append(fsLog, Access("test", fullPath))
                        /\ results' = IF RegExpTest(call.pattern, entry.name)
                                      THEN Append(results, relativePath)
                                      ELSE results
    /\ UNCHANGED <<fs, call, ret, lines, node, itemIndex, returnData>>

(***************************************************************************)
(* The directory trees the traversals run on                               *)
(*                                                                         *)
(*   /r/  c  a/{d, b/{c}}  .h/{c}  D  e/{f, .k}  node_modules/{c}  l -> a  *)
(*   /rx/ s                                                                *)
(***************************************************************************)
nR == <<"r">>
nRX == <<"r", "x">>
nA == <<"a">>
nB == <<"b">>
nC == <<"c">>
nD == <<"d">>
nE == <<"e">>
nF == <<"f">>
nL == <<"l">>
nS == <<"s">>
nUpperD == <<"D">>
nHidden == <<".", "h">>
nHiddenFile == <<".", "k">>

RootDir == <<nR>>

BaseFs ==
    (<< >> :> DirNode(<<nR, nRX>>)) @@
    (<<nR>> :> DirNode(<<nC, nA, nHidden, nUpperD, nE, NodeModules, nL>>)) @@
    (<<nR, nC>> :> FileNode(<<"x", "\n", "y">>)) @@
    (<<nR, nA>> :> DirNode(<<nD, nB>>)) @@
    (<<nR, nA, nD>> :> FileNode(<<"y">>)) @@
    (<<nR, nA, nB>> :> DirNode(<<nC>>)) @@
    (<<nR, nA, nB, nC>> :> FileNode(<<"x">>)) @@
    (<<nR, nHidden>> :> DirNode(<<nC>>)) @@
    (<<nR, nHidden, nC>> :> FileNode(<<"x">>)) @@
    (<<nR, nUpperD>> :> FileNode(<<"y">>)) @@
    (<<nR, nE>> :> DirNode(<<nF, nHiddenFile>>)) @@
    (<<nR, nE, nF>> :> FileNode(<<"y">>)) @@
    (<<nR, nE, nHiddenFile>> :> FileNode(<<"x">>)) @@
    (<<nR, NodeModules>> :> DirNode(<<nC>>)) @@
    (<<nR, NodeModules, nC>> :> FileNode(<<"x">>)) @@
    (<<nR, nL>> :> LinkNode(<<nR, nA>>)) @@
    (<<nRX>> :> DirNode(<<nS>>)) @@
    (<<nRX, nS>> :> FileNode(<<"x">>))

Reverse(seq) == [i \in 1..Len(seq) |-> seq[Len(seq) + 1 - i]]

\* BaseFs with the directories in `reversed` read back to front and the
\* directories in `unreadable` closed to reading
VariantOf(base, reversed, unreadable) ==
    [p \in DOMAIN base |->
        IF base[p].kind = "dir"
        THEN [base[p] EXCEPT !.entries = IF p \in reversed THEN Reverse(@) ELSE @,
                             !.readable = p \notin unreadable]
        ELSE base[p]]

ReversibleDirs == { <<nR>>, <<nR, nA>> }
ClosableDirs == { <<nR, nA, nB>>, <<nR, nE>> }

\* BaseFs with /r/a holding the directory b and, in place of d, the hidden
\* file .k: the entry that sorts last in /r/a is one that is filtered out
HiddenLastFs ==
    [p \in (DOMAIN BaseFs \ {<<nR, nA, nD>>}) \cup {<<nR, nA, nHiddenFile>>} |->
        IF p = <<nR, nA>> THEN DirNode(<<nHiddenFile, nB>>)
        ELSE IF p = <<nR, nA, nHiddenFile>> THEN FileNode(<<"x">>)
        ELSE BaseFs[p]]

FsVariants ==
    { VariantOf(BaseFs, rev, unr) : rev \in SUBSET ReversibleDirs, unr \in SUBSET ClosableDirs }
    \cup { HiddenLastFs }

\* where a direct call starts: the root, a subdirectory, a file, nothing
StartDirs == { <<nR>>, <<nR, nA>>, <<nR, nC>>, <<nR, <<"z", "z">>>> }

(***************************************************************************)
(* SpecTree: buildTree(dir, root, 1, maxDepth), as the tests call it       *)
(***************************************************************************)
MaxTreeDepth == 3

InitTree ==
    /\ InitIdle
    /\ fs \in FsVariants
    /\ pc = "buildTree"
    /\ \E dir \in StartDirs, maxDepth \in 0..MaxTreeDepth :
          /\ call = [fn |-> "buildTree", dirPath |-> dir, rootPath |-> RootDir,
                     maxDepth |-> maxDepth, caller |-> "test", returnTo |-> "done"]
          /\ stack = <<TreeFrame(dir, 1, << >>)>>

NextTree == TreeEnter \/ TreeLoop

SpecTree == InitTree /\ [][NextTree]_vars

(***************************************************************************)
(* SpecFindDirect: findFilesRecursive(dir, pattern, [], root, maxResults),  *)
(* as the tests call it                                                    *)
(***************************************************************************)
MaxResultsBound == 3

FindGlobs == { <<"*">>, <<"c">>, <<"?">>, <<"D", "*">> }

InitFindDirect ==
    /\ InitIdle
    /\ fs \in FsVariants
    /\ pc = "findFilesRecursive"
    /\ \E dir \in StartDirs, glob \in FindGlobs,
          maxResults \in (0..MaxResultsBound) \cup {DefaultMaxResults} :
          /\ call = [fn |-> "findFilesRecursive", dirPath |-> dir,
                     pattern |-> globToRegex(glob), rootPath |-> RootDir,
                     maxResults |-> maxResults, caller |-> "test", returnTo |-> "done"]
          /\ stack = <<FindFrame(dir)>>

NextFindDirect == FindEnter \/ FindLoop

SpecFindDirect == InitFindDirect /\ [][NextFindDirect]_vars

(***************************************************************************)
(* Reading a tree back from its lines                                      *)
(***************************************************************************)
\* 1 + the number of four-character indentation pieces the line begins with
RECURSIVE LineDepth(_)
LineDepth(line) ==
    IF Len(line) >= 4 /\ SubSeq(line, 1, 4) \in {ChildPrefixLast, ChildPrefixOther}
    THEN 1 + LineDepth(SubSeq(line, 5, Len(line)))
    ELSE 1

LineBody(line) == SubSeq(line, 4 * (LineDepth(line) - 1) + 1, Len(line))

LineConnector(line) == SubSeq(LineBody(line), 1, 4)

\* a line that shows an entry (not the placeholder)
IsEntryLine(line) ==
    Len(LineBody(line)) > 4 /\ LineConnector(line) \in {ConnectorLast, ConnectorOther}

LineIsDir(line) == line[Len(line)] = Sep

LineName(line) ==
    LET body == LineBody(line)
    IN  SubSeq(body, 5, IF LineIsDir(line) THEN Len(body) - 1 ELSE Len(body))

\* the line of the directory that line i lies in: 0 for the top level
ParentLine(ls, i) ==
    IF LineDepth(ls[i]) = 1 THEN 0
    ELSE LET above == { j \in 1..(i - 1) : LineDepth(ls[j]) = LineDepth(ls[i]) - 1 }
         IN  IF above = {} THEN 0 ELSE CHOOSE j \in above : \A k \in above : k <= j

RECURSIVE LinePath(_, _, _)
LinePath(ls, i, dir) ==
    IF ParentLine(ls, i) = 0 THEN Append(dir, LineName(ls[i]))
    ELSE Append(LinePath(ls, ParentLine(ls, i), dir), LineName(ls[i]))

EntryLines(ls) == { i \in 1..Len(ls) : IsEntryLine(ls[i]) }

SameLevel(ls, i, j) ==
    LineDepth(ls[i]) = LineDepth(ls[j]) /\ ParentLine(ls, i) = ParentLine(ls, j)

BuildTreeCalled == call.fn = "buildTree"
BuildTreeDone == BuildTreeCalled /\ stack = << >>

\* C6: at every level of buildTree's output the subdirectory lines precede the
\* lines of the other entries, and within each of the two groups the names
\* ascend in the order of localeCompare.
C6_TreeDirsFirstThenByName ==
    BuildTreeCalled =>
        \A i, j \in EntryLines(lines) :
            (i < j /\ SameLevel(lines, i, j)) =>
                /\ LineIsDir(lines[j]) => LineIsDir(lines[i])
                /\ (LineIsDir(lines[i]) = LineIsDir(lines[j]))
                       => localeCompare(LineName(lines[i]), LineName(lines[j])) < 0

\* a finished tree of a directory whose read returned files before
\* directories and names out of order, showing two directories and two files
C6_Witness ==
    /\ BuildTreeDone
    /\ call.dirPath = RootDir /\ call.maxDepth = 1
    /\ ReaddirSync(fs, RootDir).entries[1].name = nC
    /\ Cardinality({ i \in EntryLines(lines) : LineIsDir(lines[i]) }) = 2
    /\ Cardinality({ i \in EntryLines(lines) : ~LineIsDir(lines[i]) }) = 3

(***************************************************************************)
(* What lies below a directory                                             *)
(***************************************************************************)
\* the entries below dir, at most `depth` levels down, none of whose names on
\* the way is ignored
VisibleBelow(dir, depth) ==
    { p \in DOMAIN fs :
        /\ Len(p) > Len(dir)
        /\ IsNamePrefix(dir, p)
        /\ Len(p) - Len(dir) <= depth
        /\ \A k \in (Len(dir) + 1)..Len(p) : ~Ignored(p[k]) }

\* every directory from dir down to the one holding p can be read
Reachable(dir, p) ==
    \A k \in Len(dir)..(Len(p) - 1) : ReaddirSync(fs, SubSeq(p, 1, k)).ok

EmittedPaths == { LinePath(lines, i, call.dirPath) : i \in EntryLines(lines) }

ReadDirs == { fsLog[i].path : i \in { k \in 1..Len(fsLog) : fsLog[k].op = "readdir" } }

\* C7 as stated: a line is emitted for an entry exactly when the entry lies 1
\* to maxDepth levels below dir and is not filtered out; directories at depth
\* maxDepth are listed and not read.
C7_TreeShowsExactlyDepthRange ==
    BuildTreeDone =>
        /\ EmittedPaths = VisibleBelow(call.dirPath, call.maxDepth)
        /\ Cardinality(EntryLines(lines)) = Cardinality(EmittedPaths)
        /\ \A d \in ReadDirs : Len(d) - Len(call.dirPath) < call.maxDepth

\* C7 amended: ... exactly when the entry lies 1 to maxDepth levels below dir,
\* is not filtered out, and every directory from dir down to the entry's own
\* can be read; each such entry gets one line; directories at depth maxDepth
\* are listed and not read.
C7_TreeShowsReadableDepthRange ==
    BuildTreeDone =>
        /\ EmittedPaths = { p \in VisibleBelow(call.dirPath, call.maxDepth) :
                               Reachable(call.dirPath, p) }
        /\ Cardinality(EntryLines(lines)) = Cardinality(EmittedPaths)
        /\ \A d \in ReadDirs : Len(d) - Len(call.dirPath) < call.maxDepth
        /\ \A p \in EmittedPaths :
              (fs[p].kind = "dir" /\ Len(p) - Len(call.dirPath) = call.maxDepth)
                  => p \notin ReadDirs

\* a finished tree of depth 2 below /r: the directory b at depth 2 is listed
\* and was not read, its file at depth 3 is not shown
C7_Witness ==
    /\ BuildTreeDone
    /\ call.dirPath = RootDir /\ call.maxDepth = 2
    /\ <<nR, nA, nB>> \in EmittedPaths
    /\ <<nR, nA, nB>> \notin ReadDirs
    /\ <<nR, nA, nB, nC>> \notin EmittedPaths
    /\ <<nR, nE, nF>> \in EmittedPaths

(***************************************************************************)
(* findFilesRecursive: what it should find                                 *)
(***************************************************************************)
FindCalled == call.fn = "findFilesRecursive"
FindDone == FindCalled /\ stack = << >>

\* the entries below the start directory that are no directories, whose name
\* satisfies the predicate and that no ignored name hides
Matching ==
    { p \in VisibleBelow(call.dirPath, Cardinality(DOMAIN fs)) :
        fs[p].kind # "dir" /\ RegExpTest(call.pattern, p[Len(p)]) }

\* those of them the traversal can get to
MatchingReachable == { p \in Matching : Reachable(call.dirPath, p) }

ResultSet == { results[i] : i \in 1..Len(results) }

\* C8: results never holds more than maxResults paths; once maxResults are
\* collected nothing more is read or tested; when at least maxResults matching
\* files can be reached exactly maxResults are collected; the findFiles
\* operation runs with the default cap of 1000.
C8_FindCapped ==
    FindCalled =>
        /\ Len(results) <= call.maxResults
        /\ \A i \in 1..Len(fsLog) : fsLog[i].n < call.maxResults
        /\ (FindDone /\ Cardinality(MatchingReachable) >= call.maxResults)
              => /\ Len(results) = call.maxResults
                 /\ Cardinality(ResultSet) = call.maxResults
                 /\ ResultSet \subseteq { PathRelative(call.rootPath, p) : p \in MatchingReachable }
        /\ call.caller = "execute" => call.maxResults = DefaultMaxResults

\* a traversal cut short in the middle of /r: two of more than two matches
\* kept, and a subdirectory with matches never read
C8_Witness ==
    /\ FindDone
    /\ call.caller = "test"
    /\ call.dirPath = RootDir
    /\ call.maxResults = 2
    /\ Len(results) = 2
    /\ Cardinality(MatchingReachable) > 2
    /\ \E p \in MatchingReachable : SubSeq(p, 1, Len(p) - 1) \notin ReadDirs

\* the first n elements
Take(seq, n) == SubSeq(seq, 1, IF n < Len(seq) THEN n ELSE Len(seq))

\* the matches in the order a sorted walk meets them: at every level
\* directories first, then the other entries, each group by name
RECURSIVE SortedWalkDir(_), SortedWalkEntries(_, _)
SortedWalkDir(dirPath) ==
    LET rd == ReaddirSync(fs, dirPath)
    IN  IF ~rd.ok THEN << >>
        ELSE SortedWalkEntries(dirPath, FilterVisible(SortEntries(rd.entries)))
SortedWalkEntries(dirPath, entries) ==
    IF entries = << >> THEN << >>
    ELSE LET entry == Head(entries)
             fullPath == PathJoin(dirPath, entry.name)
         IN  (IF IsDirectory(entry) THEN SortedWalkDir(fullPath)
              ELSE IF RegExpTest(call.pattern, entry.name)
                   THEN <<PathRelative(call.rootPath, fullPath)>>
                   ELSE << >>)
             \o SortedWalkEntries(dirPath, Tail(entries))

\* C9: the matches are collected in the order of a depth-first walk that
\* visits, at every level, subdirectories before files and each group in
\* ascending name order, whatever order the directory read returns.
C9_FindOrderIsSortedWalk ==
    FindDone => results = Take(SortedWalkDir(call.dirPath), call.maxResults)

EntryOf(relativePath) == Walk(call.rootPath, Split(relativePath, Sep))

\* C11: every path findFilesRecursive collects is relative to the root passed
\* at the top-level call: walking it from that root ends at an entry below
\* the start directory that is no directory and whose name matches, and the
\* path has exactly the names that lead from the root to that entry (so it is
\* not relative to the start directory or to the directory being read when
\* these differ from the root).
C11_FindPathsRelativeToRoot ==
    FindCalled =>
        \A i \in 1..Len(results) :
            LET names == Split(results[i], Sep)
                entry == EntryOf(results[i])
            IN  /\ entry \in Matching
                /\ names = SubSeq(entry, Len(call.rootPath) + 1, Len(entry))
                /\ Len(call.dirPath) > Len(call.rootPath) =>
                      names # SubSeq(entry, Len(call.dirPath) + 1, Len(entry))

\* findFiles of path 'a' under the root /r: the file /r/a/b/c is collected as
\* a/b/c, two directories below the start
C11_Witness ==
    /\ FindDone
    /\ call.caller = "execute"
    /\ call.rootPath = RootDir
    /\ call.dirPath = <<nR, nA>>
    /\ nA \o <<Sep>> \o nB \o <<Sep>> \o nC \in ResultSet
    /\ EntryOf(nA \o <<Sep>> \o nB \o <<Sep>> \o nC) = <<nR, nA, nB, nC>>


(***************************************************************************)
(* execute: the operations that answer at once.  Each is the case of the   *)
(* switch computed on the filesystem `fsys` for the parameters `p` of one  *)
(* item; it yields what the case ends with (the result it assigns or the   *)
(* error it throws) and the accesses it made, in order.  Of a result the   *)
(* fields that only present a value again (formatted sizes, time stamps,   *)
(* the mode) are left out.                                                 *)
(***************************************************************************)
\* targetPath || '.'
OrDot(targetPath) == IF targetPath = << >> THEN <<".">> ELSE targetPath

\* the names the operating system reads in a resolved path
ToSegs(resolved) == NormalizeSegs(Split(resolved, Sep), << >>)

Answer(out, log) == [then |-> "answer", out |-> out, log |-> log, call |-> NoCall]

\* an answer given after the process the case started has left the
\* filesystem as `fsys`
AnswerAfter(out, log, fsys) ==
    [then |-> "answer", out |-> out, log |-> log, call |-> NoCall, fs |-> fsys]

\* the listing record of one directory entry
FileInfo(fsys, fullPath, entry) ==
    LET stats == getStats(fsys, PathJoin(fullPath, entry.name))
        type == CASE entry.kind = "dir" -> "directory"
                  [] entry.kind = "file" -> "file"
                  [] entry.kind = "symlink" -> "symlink"
                  [] OTHER -> "other"
    IN  IF stats.ok /\ entry.kind = "file"
        THEN [name |-> entry.name, type |-> type, sizeBytes |-> stats.size]
        ELSE [name |-> entry.name, type |-> type]

\* The code sorts the listing records by (type is 'directory', name); the
\* type is 'directory' exactly for a directory entry, so the order is that
\* of SortEntries on the entries themselves.
listDirectory(fsys, resolvedRoot, p) ==
    LET targetPath == p.path
        v == validatePath(resolvedRoot, OrDot(targetPath))
        fullPath == ToSegs(v.value)
        dirStats == getStats(fsys, fullPath)
        rd == ReaddirSync(fsys, fullPath)
        sorted == SortEntries(rd.entries)
        files == [i \in 1..Len(sorted) |-> FileInfo(fsys, fullPath, sorted[i])]
        statLog == <<Access("stat", fullPath)>>
        readLog == statLog \o <<Access("readdir", fullPath)>>
    IN  IF v.threw THEN Answer(v, << >>)
        ELSE IF ~dirStats.ok
        THEN Answer(Returned([operation |-> "listDirectory", path |-> OrDot(targetPath),
                              found |-> FALSE,
                              message |-> <<"Directory not found: ">> \o OrDot(targetPath)]),
                    statLog)
        ELSE IF dirStats.kind # "dir"
        THEN Answer(Returned([operation |-> "listDirectory", path |-> OrDot(targetPath),
                              found |-> FALSE, isFile |-> dirStats.kind = "file",
                              message |-> <<"Path exists but is not a directory: ">> \o targetPath]),
                    statLog)
        ELSE IF ~rd.ok
        THEN Answer(Threw("Error", <<"EACCES: ">> \o v.value), readLog)
        ELSE Answer(Returned([operation |-> "listDirectory", path |-> OrDot(targetPath),
                              found |-> TRUE,
                              totalItems |-> Len(files),
                              directories |-> Cardinality({i \in 1..Len(files) : files[i].type = "directory"}),
                              files |-> Cardinality({i \in 1..Len(files) : files[i].type = "file"}),
                              entries |-> files]),
                    readLog \o [i \in 1..Len(rd.entries) |->
                                   Access("stat", PathJoin(fullPath, rd.entries[i].name))])

\* a plausible slip: the offset taken for a 1-based line number
SliceFromLine(seq, from) == SubSeq(seq, from, Len(seq))

\* lines.slice(from): the elements after the first `from`
SliceFrom(seq, from) == SubSeq(seq, from + 1, Len(seq))

\* lines.slice(0, count)
SliceTo(seq, count) == SubSeq(seq, 1, IF count < Len(seq) THEN count ELSE Len(seq))

readFile(fsys, resolvedRoot, p) ==
    LET targetPath == p.path
        v == validatePath(resolvedRoot, targetPath)
        fullPath == ToSegs(v.value)
        stats == getStats(fsys, fullPath)
        content == fsys[stats.real].content
        allLines == Split(content, "\n")
        afterOffset == IF p.lineOffset > 0 THEN SliceFrom(allLines, p.lineOffset) ELSE allLines
        shown == IF p.maxLines > 0 THEN SliceTo(afterOffset, p.maxLines) ELSE afterOffset
        statLog == <<Access("stat", fullPath)>>
    IN  IF targetPath = << >>
        THEN Answer(Returned([operation |-> "readFile", path |-> << >>, found |-> FALSE,
                              message |-> <<"Path is required for readFile operation">>]),
                    << >>)
        ELSE IF v.threw THEN Answer(v, << >>)
        ELSE IF ~stats.ok
        THEN Answer(Returned([operation |-> "readFile", path |-> targetPath, found |-> FALSE,
                              message |-> <<"File not found: ">> \o targetPath]),
                    statLog)
        ELSE IF stats.kind # "file"
        THEN Answer(Returned([operation |-> "readFile", path |-> targetPath, found |-> FALSE,
                              isDirectory |-> stats.kind = "dir",
                              message |-> <<"Path exists but is not a file: ">> \o targetPath]),
                    statLog)
        ELSE Answer(Returned([operation |-> "readFile", path |-> targetPath, found |-> TRUE,
                              totalLines |-> Len(allLines),
                              linesReturned |-> Len(shown),
                              lineOffset |-> p.lineOffset,
                              sizeBytes |-> stats.size,
                              content |-> JoinWith(shown, <<"\n">>),
                              lines |-> [i \in 1..Len(shown) |->
                                            [lineNumber |-> p.lineOffset + (i - 1) + 1,
                                             content |-> shown[i]]]]),
                    statLog \o <<Access("readFile", fullPath)>>)

\* fs.statSync follows links, so the Stats it returns are never a link's
fileInfo(fsys, resolvedRoot, p) ==
    LET targetPath == p.path
        v == validatePath(resolvedRoot, targetPath)
        fullPath == ToSegs(v.value)
        stats == getStats(fsys, fullPath)
        statLog == <<Access("stat", fullPath)>>
    IN  IF targetPath = << >>
        THEN Answer(Returned([operation |-> "fileInfo", path |-> << >>, exists |-> FALSE,
                              message |-> <<"Path is required for fileInfo operation">>]),
                    << >>)
        ELSE IF v.threw THEN Answer(v, << >>)
        ELSE IF ~stats.ok
        THEN Answer(Returned([operation |-> "fileInfo", path |-> targetPath, exists |-> FALSE,
                              message |-> <<"Path not found: ">> \o targetPath]),
                    statLog)
        ELSE Answer(Returned([operation |-> "fileInfo", path |-> targetPath, exists |-> TRUE,
                              isFile |-> stats.kind = "file",
                              isDirectory |-> stats.kind = "dir",
                              isSymbolicLink |-> FALSE,
                              sizeBytes |-> stats.size]),
                    statLog)


(***************************************************************************)
(* The command the grep operation runs.  execSync hands the command line   *)
(* to the shell, which reads the three double-quoted texts in it (the file *)
(* pattern, the search pattern, the path) before it starts the search: in  *)
(* double quotes a backslash quotes ", \ and $, and $(...) runs a command  *)
(* and stands for its output.                                              *)
(***************************************************************************)
\* searchPattern.replace(/"/g, '\\"')
RECURSIVE EscapeQuotes(_)
EscapeQuotes(str) ==
    IF str = << >> THEN << >>
    ELSE (IF Head(str) = "\"" THEN <<"\\", "\"">> ELSE <<Head(str)>>) \o EscapeQuotes(Tail(str))

\* the command line, by its parts: the options present and the quoted texts
GrepCommand(p, fullPath) ==
    [ignoreCase |-> p.caseInsensitive,
     context |-> IF p.contextLines > 0 THEN p.contextLines ELSE 0,
     include |-> IF p.filePattern # << >> /\ p.filePattern # <<"*">> THEN <<p.filePattern>> ELSE << >>,
     pattern |-> EscapeQuotes(p.searchPattern),
     operand |-> fullPath]

\* where c first occurs in text at or after position i; 0 when it does not
RECURSIVE IndexFrom(_, _, _)
IndexFrom(text, c, i) ==
    IF i > Len(text) THEN 0 ELSE IF text[i] = c THEN i ELSE IndexFrom(text, c, i + 1)

NameChars0 == {"_"} \cup {LowerLetters[i] : i \in 1..Len(LowerLetters)}
                    \cup {UpperLetters[i] : i \in 1..Len(UpperLetters)}

\* where the variable name beginning at `from` ends
RECURSIVE NameEnd(_, _)
NameEnd(text, from) ==
    IF from <= Len(text) /\ text[from] \in NameChars0 THEN NameEnd(text, from + 1) ELSE from

ShellError == [word |-> << >>, commands |-> << >>, error |-> TRUE]

\* The shell reading a double-quoted text from position i: the word it
\* stands for and the commands run for it.  The commands print nothing; a
\* variable named in the text is not set; an unquoted " ends the text early
\* and leaves a command line the shell rejects.
RECURSIVE ShellQuotedFrom(_, _, _, _)
ShellQuotedFrom(text, i, word, commands) ==
    IF i > Len(text) THEN [word |-> word, commands |-> commands, error |-> FALSE]
    ELSE LET c == text[i]
             next == IF i < Len(text) THEN text[i + 1] ELSE ""
             paren == IndexFrom(text, ")", i + 2)
         IN  CASE c = "\\" /\ next \in {"\"", "\\", "$"} ->
                     ShellQuotedFrom(text, i + 2, Append(word, next), commands)
               [] c = "\"" -> ShellError
               [] c = "$" /\ next = "(" ->
                     IF paren = 0 THEN ShellError
                     ELSE ShellQuotedFrom(text, paren + 1, word,
                                          Append(commands, SubSeq(text, i + 2, paren - 1)))
               [] c = "$" /\ next \in NameChars0 ->
                     ShellQuotedFrom(text, NameEnd(text, i + 1), word, commands)
               [] OTHER -> ShellQuotedFrom(text, i + 1, Append(word, c), commands)

ShellQuoted(text) == ShellQuotedFrom(text, 1, << >>, << >>)

\* seq without its elements equal to x
RECURSIVE Without(_, _)
Without(seq, x) ==
    IF seq = << >> THEN << >>
    ELSE (IF Head(seq) = x THEN << >> ELSE <<Head(seq)>>) \o Without(Tail(seq), x)

\* a command run by the shell: rm <file> removes the file; nothing else that
\* is run here changes the filesystem
RunCommand(fsys, command) ==
    LET words == Split(command, " ")
        path == ToSegs(words[2])
        parent == SubSeq(path, 1, Len(path) - 1)
    IN  IF /\ Len(words) = 2
           /\ words[1] = <<"r", "m">>
           /\ path \in DOMAIN fsys
           /\ fsys[path].kind = "file"
        THEN [q \in DOMAIN fsys \ {path} |->
                 IF q = parent THEN [fsys[q] EXCEPT !.entries = Without(@, path[Len(path)])]
                 ELSE fsys[q]]
        ELSE fsys

RECURSIVE RunAll(_, _)
RunAll(fsys, commands) ==
    IF commands = << >> THEN fsys
    ELSE RunAll(RunCommand(fsys, Head(commands)), Tail(commands))

(***************************************************************************)
(* The text-search process:                                                *)
(*   grep -rn [-i] [-C n] [--include=GLOB] --exclude-dir=... -E PATTERN P  *)
(* for patterns made of ordinary characters and groups.  It walks          *)
(* directories in directory order, skips the excluded directories and the  *)
(* links it meets below the operand, prints path:number:line for each      *)
(* selected line and, with -C, path-number-line for the lines around it    *)
(* and -- between groups of lines that are not adjacent (no path when the  *)
(* operand is a file); it exits with 0 when a line was selected, 1 when    *)
(* none was, 2 when the pattern is malformed or something cannot be read.  *)
(***************************************************************************)
ExcludedDirs == { NodeModules, <<".", "g", "i", "t">>, <<"d", "i", "s", "t">>,
                  <<"b", "u", "i", "l", "d">> }

Digits == <<"0", "1", "2", "3", "4", "5", "6", "7", "8", "9">>

RECURSIVE ToDecimal(_)
ToDecimal(n) == IF n < 10 THEN <<Digits[n + 1]>>
                ELSE ToDecimal(n \div 10) \o <<Digits[(n % 10) + 1]>>

UpperCase(str) == [i \in 1..Len(str) |-> ToUpper(str[i])]

\* the pattern compiles: every "(" is closed and every "[" is
RECURSIVE OpenGroups(_, _)
OpenGroups(pattern, depth) ==
    IF pattern = << >> THEN depth
    ELSE OpenGroups(Tail(pattern),
                    IF Head(pattern) = "(" THEN depth + 1
                    ELSE IF Head(pattern) = ")" /\ depth > 0 THEN depth - 1
                    ELSE depth)

RegcompOk(pattern) ==
    /\ OpenGroups(pattern, 0) = 0
    /\ \A i \in 1..Len(pattern) : pattern[i] = "[" => IndexFrom(pattern, "]", i + 1) > 0

\* the characters a compiled pattern asks for: groups only bracket them
RECURSIVE Literal(_, _)
Literal(pattern, depth) ==
    IF pattern = << >> THEN << >>
    ELSE IF Head(pattern) = "(" THEN Literal(Tail(pattern), depth + 1)
    ELSE IF Head(pattern) = ")" /\ depth > 0 THEN Literal(Tail(pattern), depth - 1)
    ELSE <<Head(pattern)>> \o Literal(Tail(pattern), depth)

\* the pattern matches txt from position i on: "$" holds at the end of the
\* line only, every other character stands for itself
RECURSIVE MatchesAt(_, _, _)
MatchesAt(pat, txt, i) ==
    IF pat = << >> THEN TRUE
    ELSE IF Head(pat) = "$" THEN i = Len(txt) + 1 /\ MatchesAt(Tail(pat), txt, i)
    ELSE i <= Len(txt) /\ txt[i] = Head(pat) /\ MatchesAt(Tail(pat), txt, i + 1)

\* a line is selected when the pattern matches somewhere in it
Selects(pattern, line, ignoreCase) ==
    LET lit == Literal(pattern, 0)
        pat == IF ignoreCase THEN UpperCase(lit) ELSE lit
        txt == IF ignoreCase THEN UpperCase(line) ELSE line
    IN  \E i \in 1..(Len(txt) + 1) : MatchesAt(pat, txt, i)

\* the lines of a file: what its line feeds end
FileLines(content) ==
    LET pieces == Split(content, "\n")
    IN  IF pieces[Len(pieces)] = << >> THEN SubSeq(pieces, 1, Len(pieces) - 1) ELSE pieces

\* fnmatch(glob, name) for globs of ordinary characters, * and ?
RECURSIVE Fnmatch(_, _)
Fnmatch(glob, name) ==
    IF glob = << >> THEN name = << >>
    ELSE IF Head(glob) = "*"
         THEN Fnmatch(Tail(glob), name) \/ (name # << >> /\ Fnmatch(glob, Tail(name)))
    ELSE IF name = << >> THEN FALSE
    ELSE (Head(glob) = "?" \/ Head(glob) = Head(name)) /\ Fnmatch(Tail(glob), Tail(name))

\* the lines of one file that are printed, in order: the selected lines and,
\* with -C, the lines at most cmd.context away from one
RECURSIVE GrepLines(_, _, _, _)
GrepLines(fileLines, number, shown, cmd) ==
    IF number > Len(fileLines) THEN << >>
    ELSE LET near == { m \in 1..Len(fileLines) :
                         /\ m - number <= cmd.context
                         /\ number - m <= cmd.context
                         /\ Selects(cmd.word, fileLines[m], cmd.ignoreCase) }
         IN  (IF near # {}
              THEN <<[shown |-> shown, number |-> number, text |-> fileLines[number],
                      selected |-> number \in near]>>
              ELSE << >>)
             \o GrepLines(fileLines, number + 1, shown, cmd)

RECURSIVE GrepDir(_, _, _, _)
RECURSIVE GrepEntries(_, _, _, _, _, _)
GrepDir(fsys, dir, shown, cmd) ==
    IF ~fsys[dir].readable THEN [out |-> << >>, failed |-> TRUE]
    ELSE GrepEntries(fsys, dir, shown, fsys[dir].entries, 1, cmd)

GrepEntries(fsys, dir, shown, entries, i, cmd) ==
    IF i > Len(entries) THEN [out |-> << >>, failed |-> FALSE]
    ELSE LET name == entries[i]
             child == Append(dir, name)
             childShown == shown \o <<Sep>> \o name
             here == CASE fsys[child].kind = "dir" /\ name \notin ExcludedDirs ->
                            GrepDir(fsys, child, childShown, cmd)
                       [] fsys[child].kind = "file"
                          /\ (cmd.include = << >> \/ Fnmatch(cmd.include[1], name)) ->
                            [out |-> GrepLines(FileLines(fsys[child].content), 1, childShown, cmd),
                             failed |-> FALSE]
                       [] OTHER -> [out |-> << >>, failed |-> FALSE]
             rest == GrepEntries(fsys, dir, shown, entries, i + 1, cmd)
         IN  [out |-> here.out \o rest.out, failed |-> here.failed \/ rest.failed]

\* one printed line: the path (when there is one), the number and the text,
\* divided by ":" for a selected line and by "-" for a line of context
OutputLine(line) ==
    LET mark == IF line.selected THEN <<":">> ELSE <<"-">>
    IN  (IF line.shown = << >> THEN << >> ELSE line.shown \o mark)
        \o ToDecimal(line.number) \o mark \o line.text

\* the output: every printed line and its line feed, with -- before a line
\* that does not follow the one printed before it when -C is given
RECURSIVE Concat(_, _, _)
Concat(printed, i, context) ==
    IF i > Len(printed) THEN << >>
    ELSE (IF /\ context > 0
             /\ i > 1
             /\ ~(/\ printed[i].shown = printed[i - 1].shown
                  /\ printed[i].number = printed[i - 1].number + 1)
          THEN <<"-", "-", "\n">> ELSE << >>)
         \o OutputLine(printed[i]) \o <<"\n">>
         \o Concat(printed, i + 1, context)

\* the end of the search: the exit status and what was printed
GrepExit(after, cmd, found) ==
    [status |-> IF found.failed THEN 2
                ELSE IF \E i \in 1..Len(found.out) : found.out[i].selected THEN 0
                ELSE 1,
     stdout |-> Concat(found.out, 1, cmd.context),
     fs |-> after]

\* the search itself, on the filesystem the shell left: cmd holds the
\* options and the words the shell read, operand is the path looked up
GrepSearch(after, cmd, operand) ==
    IF ~RegcompOk(cmd.word) \/ ~operand.ok
    THEN [status |-> 2, stdout |-> << >>, fs |-> after]
    ELSE GrepExit(after, cmd,
                  IF after[operand.path].kind = "file"
                  THEN [out |-> IF cmd.include = << >>
                                   \/ Fnmatch(cmd.include[1], operand.path[Len(operand.path)])
                                THEN GrepLines(FileLines(after[operand.path].content), 1, << >>, cmd)
                                ELSE << >>,
                        failed |-> FALSE]
                  ELSE GrepDir(after, operand.path, cmd.path, cmd))

GrepAfter(after, cmd) == GrepSearch(after, cmd, Lookup(after, << >>, ToSegs(cmd.path), {}))

\* the command line as the shell has read it: a text it cannot read ends
\* the command before anything is run; else the commands of the
\* substitutions run, then grep
GrepShell(fsys, command, include, pattern, path) ==
    IF include.error \/ pattern.error \/ path.error
    THEN [status |-> 2, stdout |-> << >>, fs |-> fsys]
    ELSE GrepAfter(RunAll(fsys, include.commands \o pattern.commands \o path.commands),
                   [ignoreCase |-> command.ignoreCase, context |-> command.context,
                    include |-> IF command.include = << >> THEN << >> ELSE <<include.word>>,
                    word |-> pattern.word, path |-> path.word])

GrepProcess(fsys, command) ==
    GrepShell(fsys, command,
              ShellQuoted(IF command.include = << >> THEN <<"*">> ELSE command.include[1]),
              ShellQuoted(command.pattern),
              ShellQuoted(command.operand))

\* execSync and the catch around it: the output of a process that exits
\* with 0, nothing after exit status 1, the output the error carries otherwise
ExecSyncOutput(process) == IF process.status = 1 THEN << >> ELSE process.stdout

Whitespace == {" ", "\t", "\n", "\r"}

\* l.trim() is not empty
TrimIsNonEmpty(l) == \E i \in 1..Len(l) : l[i] \notin Whitespace

\* .filter((l) => l.trim())
RECURSIVE NonBlank(_)
NonBlank(ls) ==
    IF ls = << >> THEN << >>
    ELSE (IF TrimIsNonEmpty(Head(ls)) THEN <<Head(ls)>> ELSE << >>) \o NonBlank(Tail(ls))

IsDigit(c) == IndexIn(Digits, c) > 0

\* where the digits beginning at `from` end
RECURSIVE DigitsEnd(_, _)
DigitsEnd(line, from) ==
    IF from <= Len(line) /\ IsDigit(line[from]) THEN DigitsEnd(line, from + 1) ELSE from

NoLineTerminator(str) == \A i \in 1..Len(str) : str[i] \notin LineTerminators

\* /^(.+?)<sep>(\d+)<sep>(.*)$/ at the first position of <sep> that fits
RECURSIVE MatchFrom(_, _, _)
MatchFrom(line, sep, i) ==
    IF i > Len(line) THEN [ok |-> FALSE]
    ELSE LET j == DigitsEnd(line, i + 1)
         IN  IF /\ line[i] = sep
                /\ j > i + 1
                /\ j <= Len(line)
                /\ line[j] = sep
                /\ NoLineTerminator(SubSeq(line, 1, i - 1))
                /\ NoLineTerminator(SubSeq(line, j + 1, Len(line)))
             THEN [ok |-> TRUE, file |-> SubSeq(line, 1, i - 1),
                   number |-> SubSeq(line, i + 1, j - 1),
                   content |-> SubSeq(line, j + 1, Len(line))]
             ELSE MatchFrom(line, sep, i + 1)

LineMatch(line, sep) == MatchFrom(line, sep, 2)

RECURSIVE ParseInt(_)
ParseInt(digits) ==
    IF digits = << >> THEN 0
    ELSE 10 * ParseInt(SubSeq(digits, 1, Len(digits) - 1)) + (IndexIn(Digits, digits[Len(digits)]) - 1)

\* the matches the output lines parse to
RECURSIVE ParseLines(_, _)
ParseLines(outputLines, rootSegs) ==
    IF outputLines = << >> THEN << >>
    ELSE LET line == Head(outputLines)
             colonMatch == LineMatch(line, ":")
             dashMatch == LineMatch(line, "-")
         IN  (IF colonMatch.ok
              THEN <<[file |-> PathRelative(rootSegs, ToSegs(colonMatch.file)),
                      lineNumber |-> ParseInt(colonMatch.number),
                      content |-> colonMatch.content]>>
              ELSE IF dashMatch.ok
              THEN <<[file |-> PathRelative(rootSegs, ToSegs(dashMatch.file)),
                      lineNumber |-> ParseInt(dashMatch.number),
                      content |-> dashMatch.content,
                      isContext |-> TRUE]>>
              ELSE << >>)
             \o ParseLines(Tail(outputLines), rootSegs)

IsContext(match) == "isContext" \in DOMAIN match

\* the matches of each file, in their order
RECURSIVE OfFile(_, _)
OfFile(matches, file) ==
    IF matches = << >> THEN << >>
    ELSE (IF Head(matches).file = file
          THEN <<[lineNumber |-> Head(matches).lineNumber, content |-> Head(matches).content,
                  isContext |-> IsContext(Head(matches))]>>
          ELSE << >>)
         \o OfFile(Tail(matches), file)

ByFile(matches) ==
    [file \in {matches[i].file : i \in 1..Len(matches)} |-> OfFile(matches, file)]

\* the result of grep, from the lines parsed
GrepResult(p, matches, byFile, log, after) ==
    AnswerAfter(Returned([operation |-> "grep", pattern |-> p.searchPattern,
                          path |-> OrDot(p.path),
                          filePattern |-> p.filePattern,
                          caseInsensitive |-> p.caseInsensitive,
                          totalMatches |-> Cardinality({i \in 1..Len(matches) : ~IsContext(matches[i])}),
                          filesWithMatches |-> Cardinality(DOMAIN byFile),
                          matchesByFile |-> byFile,
                          matches |-> matches]),
                log, after)

\* from the output of the process to the result
GrepParsed(p, matches, log, after) == GrepResult(p, matches, ByFile(matches), log, after)

GrepRan(p, resolvedRoot, grepOutput, log, after) ==
    GrepParsed(p,
               IF grepOutput # << >>
               THEN ParseLines(NonBlank(Split(grepOutput, "\n")), ToSegs(resolvedRoot))
               ELSE << >>,
               log, after)

GrepStarted(p, resolvedRoot, fullPath, process) ==
    GrepRan(p, resolvedRoot, ExecSyncOutput(process), <<Access("grep", ToSegs(fullPath))>>, process.fs)

GrepValidated(fsys, resolvedRoot, p, v) ==
    IF v.threw THEN Answer(v, << >>)
    ELSE GrepStarted(p, resolvedRoot, v.value, GrepProcess(fsys, GrepCommand(p, v.value)))

grep(fsys, resolvedRoot, p) ==
    IF p.searchPattern = << >>
    THEN Answer(Threw("SearchPatternRequired", <<"searchPattern is required for grep operation">>),
                << >>)
    ELSE GrepValidated(fsys, resolvedRoot, p, validatePath(resolvedRoot, OrDot(p.path)))


(***************************************************************************)
(* execute: one item.  The root checks, then the switch on the operation.  *)
(* findFiles and tree start a traversal (the answer is assembled when it   *)
(* returns); every other case answers at once.                             *)
(***************************************************************************)
\* !rootPath
RootMissingNever(rootPath) == FALSE

RootMissing(rootPath) == rootPath = << >>

\* a plausible slip: only the upper end clamped
ClampAbove(maxDepth) == IF maxDepth < 10 THEN maxDepth ELSE 10

\* Math.max(1, Math.min(10, maxDepth))
Clamp(maxDepth) ==
    LET atMost == IF maxDepth < 10 THEN maxDepth ELSE 10
    IN  IF atMost > 1 THEN atMost ELSE 1

\* path.basename of a resolved path
Basename(resolved) == LET segs == ToSegs(resolved)
                      IN  IF segs = << >> THEN << >> ELSE segs[Len(segs)]

StartCall(c, log) == [then |-> "call", out |-> NoRet, log |-> log, call |-> c]

findFiles(fsys, resolvedRoot, p) ==
    LET targetPath == p.path
        v == validatePath(resolvedRoot, OrDot(targetPath))
        regex == globToRegex(p.namePattern)
    IN  IF v.threw THEN Answer(v, << >>)
        ELSE StartCall([fn |-> "findFilesRecursive", dirPath |-> ToSegs(v.value),
                        pattern |-> regex, rootPath |-> ToSegs(resolvedRoot),
                        maxResults |-> DefaultMaxResults,
                        caller |-> "execute", returnTo |-> "findFilesResult"],
                       << >>)

tree(fsys, resolvedRoot, p) ==
    LET targetPath == p.path
        maxDepth == Clamp(p.maxDepth)
        v == validatePath(resolvedRoot, OrDot(targetPath))
        fullPath == ToSegs(v.value)
        stats == getStats(fsys, fullPath)
        statLog == <<Access("stat", fullPath)>>
    IN  IF v.threw THEN Answer(v, << >>)
        ELSE IF ~stats.ok
        THEN Answer(Returned([operation |-> "tree", path |-> OrDot(targetPath), found |-> FALSE,
                              message |-> <<"Directory not found: ">> \o OrDot(targetPath)]),
                    statLog)
        ELSE IF stats.kind # "dir"
        THEN Answer(Returned([operation |-> "tree", path |-> OrDot(targetPath), found |-> FALSE,
                              isFile |-> stats.kind = "file",
                              message |-> <<"Path exists but is not a directory: ">> \o targetPath]),
                    statLog)
        ELSE StartCall([fn |-> "buildTree", dirPath |-> fullPath,
                        rootPath |-> ToSegs(resolvedRoot), maxDepth |-> maxDepth,
                        caller |-> "execute", returnTo |-> "treeResult"],
                       statLog)

\* the body of the try block up to the end of the switch or the call of a
\* traversal
Dispatch(fsys, p) ==
    LET resolvedRoot == PathResolve1(p.rootPath)
        rootStats == getStats(fsys, ToSegs(resolvedRoot))
        rootLog == <<Access("stat", ToSegs(resolvedRoot))>>
        case == CASE p.operation = "listDirectory" -> listDirectory(fsys, resolvedRoot, p)
                  [] p.operation = "readFile" -> readFile(fsys, resolvedRoot, p)
                  [] p.operation = "grep" -> grep(fsys, resolvedRoot, p)
                  [] p.operation = "findFiles" -> findFiles(fsys, resolvedRoot, p)
                  [] p.operation = "fileInfo" -> fileInfo(fsys, resolvedRoot, p)
                  [] p.operation = "tree" -> tree(fsys, resolvedRoot, p)
                  [] OTHER -> Answer(Threw("UnknownOperation",
                                           <<"Unknown operation: ">> \o <<p.operation>>), << >>)
    IN  IF RootMissing(p.rootPath)
        THEN Answer(Threw("RootRequired", <<"Root path is required">>), << >>)
        ELSE IF ~rootStats.ok \/ rootStats.kind # "dir"
        THEN Answer(Threw("RootInvalid",
                          <<"Root path does not exist or is not a directory: ">> \o resolvedRoot),
                    rootLog)
        ELSE [case EXCEPT !.log = rootLog \o @]

\* a plausible slip: an item that raises is passed over without a record
FinishSkippingErrors(out) ==
    IF out.threw /\ ~node.continueOnFail
    THEN /\ pc' = "thrown"
         /\ ret' = [threw |-> TRUE, error |-> out.error, detail |-> out.detail,
                    itemIndex |-> itemIndex]
         /\ UNCHANGED <<returnData, itemIndex>>
    ELSE /\ returnData' = IF out.threw THEN returnData
                           ELSE Append(returnData, [json |-> out.value])
         /\ itemIndex' = itemIndex + 1
         /\ pc' = IF itemIndex + 1 < node.length THEN "item" ELSE "returned"
         /\ ret' = IF itemIndex + 1 < node.length THEN ret ELSE Returned(<<returnData'>>)

\* The end of an item: returnData.push({json: result}) after the switch, or
\* the catch block; then the loop goes on or execute returns.
Finish(out) ==
    IF out.threw /\ ~node.continueOnFail
    THEN /\ pc' = "thrown"
         /\ ret' = [threw |-> TRUE, error |-> out.error, detail |-> out.detail,
                    itemIndex |-> itemIndex]
         /\ UNCHANGED <<returnData, itemIndex>>
    ELSE /\ returnData' = Append(returnData,
                                 IF out.threw
                                 THEN [json |-> [error |-> [error |-> out.error, detail |-> out.detail]],
                                       pairedItem |-> itemIndex]
                                 ELSE [json |-> out.value])
         /\ itemIndex' = itemIndex + 1
         /\ pc' = IF itemIndex + 1 < node.length THEN "item" ELSE "returned"
         /\ ret' = IF itemIndex + 1 < node.length THEN ret ELSE Returned(<<returnData'>>)

\* the item at itemIndex, its parameters one of `params`; d is what the try
\* block comes to
ExecItemOf(params) ==
    /\ pc = "item"
    /\ itemIndex < node.length
    /\ \E p \in params : \E d \in {Dispatch(fs, p)} :
          /\ node' = [node EXCEPT !.items = Append(@, p)]
          /\ fsLog' = fsLog \o d.log
          /\ results' = << >>
          /\ lines' = << >>
          /\ IF d.then = "call"
             THEN /\ call' = d.call
                  /\ pc' = d.call.fn
                  /\ stack' = IF d.call.fn = "buildTree"
                              THEN <<TreeFrame(d.call.dirPath, 1, << >>)>>
                              ELSE <<FindFrame(d.call.dirPath)>>
                  /\ UNCHANGED <<ret, itemIndex, returnData>>
             ELSE /\ Finish(d.out)
                  /\ call' = NoCall
                  /\ stack' = << >>
          /\ fs' = IF "fs" \in DOMAIN d THEN d.fs ELSE fs

\* findFilesRecursive has returned: the result of findFiles
ExecFindFilesResult ==
    /\ pc = "findFilesResult"
    /\ LET p == node.items[Len(node.items)]
       IN  Finish(Returned([operation |-> "findFiles", pattern |-> p.namePattern,
                            path |-> OrDot(p.path),
                            totalFound |-> Len(results),
                            files |-> results]))
    /\ UNCHANGED <<fs, call, stack, results, lines, fsLog, node>>

\* buildTree has returned: the result of tree
ExecTreeResult ==
    /\ pc = "treeResult"
    /\ LET p == node.items[Len(node.items)]
           rootName == IF p.path # << >> THEN p.path ELSE Basename(PathResolve1(p.rootPath))
       IN  Finish(Returned([operation |-> "tree", path |-> OrDot(p.path), found |-> TRUE,
                            maxDepth |-> call.maxDepth,
                            tree |-> rootName \o <<Sep, "\n">> \o JoinWith(lines, <<"\n">>),
                            treeLines |-> <<rootName \o <<Sep>>>> \o lines]))
    /\ UNCHANGED <<fs, call, stack, results, lines, fsLog, node>>

(***************************************************************************)
(* SpecExec: execute over the items of one call                            *)
(***************************************************************************)
MaxItems == 3

Operations == {"listDirectory", "readFile", "grep", "findFiles", "fileInfo", "tree"}

Params(rootPath, operation, path, searchPattern, namePattern, maxLines, lineOffset, maxDepth) ==
    [rootPath |-> rootPath, operation |-> operation, path |-> path,
     searchPattern |-> searchPattern, namePattern |-> namePattern,
     filePattern |-> <<"*">>, caseInsensitive |-> FALSE, contextLines |-> 0,
     maxLines |-> maxLines, lineOffset |-> lineOffset, maxDepth |-> maxDepth]

GoodRoot == <<Sep>> \o nR
BadRoots == { << >>, <<Sep>> \o nR \o <<Sep>> \o nC, <<Sep, "z", "z">> }

\* "", a, c, zz, ../rx, /rx
ExecPaths == { << >>, nA, nC, <<"z", "z">>, <<".", ".", Sep>> \o nRX, <<Sep>> \o nRX }

\* the parameters of an operation, varied where the operation reads them
ParamsOfOperation(rootPath, path, operation) ==
    CASE operation = "readFile" ->
            { Params(rootPath, operation, path, << >>, <<"*">>, w[1], w[2], 3) : w \in {<<0, 0>>, <<1, 1>>} }
      [] operation = "grep" ->
            { Params(rootPath, operation, path, sp, <<"*">>, 0, 0, 3) : sp \in {<< >>, <<"x">>} }
      [] operation = "tree" ->
            { Params(rootPath, operation, path, << >>, <<"*">>, 0, 0, d) : d \in {0, 2} }
      [] OTHER -> { Params(rootPath, operation, path, << >>, <<"*">>, 0, 0, 3) }

ItemParams ==
    UNION ( { ParamsOfOperation(GoodRoot, path, op) : path \in ExecPaths, op \in Operations }
            \cup { ParamsOfOperation(GoodRoot, << >>, "bogus") }
            \cup { ParamsOfOperation(root, nA, op) : root \in BadRoots, op \in Operations \cup {"bogus"} }
            \cup { { Params(root, "grep", <<".", ".", Sep>> \o nRX, << >>, <<"*">>, 0, 0, 3) } : root \in BadRoots } )

ExecFsVariants ==
    { VariantOf(BaseFs, rev, unr) : rev \in {{}, {<<nR>>}}, unr \in {{}, {<<nR, nE>>}} }

InitExec ==
    /\ fs \in ExecFsVariants
    /\ pc = "item"
    /\ call = NoCall
    /\ ret = NoRet
    /\ stack = << >>
    /\ results = << >>
    /\ lines = << >>
    /\ fsLog = << >>
    /\ \E c \in BOOLEAN, n \in 1..MaxItems :
          node = [continueOnFail |-> c, length |-> n, items |-> << >>]
    /\ itemIndex = 0
    /\ returnData = << >>

\* The last item of a call is any of ItemParams; the items before it are one
\* of each way an item can end: a listing, a found:false record, a path
\* refused, a traversal, a root error.
EarlierParams ==
    { Params(GoodRoot, "listDirectory", nA, << >>, <<"*">>, 0, 0, 3),
      Params(GoodRoot, "readFile", <<"z", "z">>, << >>, <<"*">>, 0, 0, 3),
      Params(GoodRoot, "tree", <<".", ".", Sep>> \o nRX, << >>, <<"*">>, 0, 0, 2),
      Params(GoodRoot, "findFiles", << >>, << >>, <<"*">>, 0, 0, 3),
      Params(<< >>, "grep", nA, << >>, <<"*">>, 0, 0, 3) }

ExecItem == ExecItemOf(IF itemIndex + 1 < node.length THEN EarlierParams ELSE ItemParams)

NextExec == ExecItem \/ FindEnter \/ FindLoop \/ ExecFindFilesResult
            \/ TreeEnter \/ TreeLoop \/ ExecTreeResult

SpecExec == InitExec /\ [][NextExec]_vars

(***************************************************************************)
(* SpecFind: findFilesRecursive called directly, or by the findFiles       *)
(* operation of execute                                                    *)
(***************************************************************************)
FindItemParams == { p \in ItemParams : p.operation = "findFiles" /\ p.rootPath = GoodRoot }

InitFind == InitFindDirect \/ (InitExec /\ node.length = 1)

FindItem == ExecItemOf(FindItemParams)

NextFind == FindItem \/ FindEnter \/ FindLoop \/ ExecFindFilesResult

SpecFind == InitFind /\ [][NextFind]_vars

(***************************************************************************)
(* SpecGrep: execute over grep items.  The repository searched:            *)
(*   /r/f              x, y, y, y, x                                       *)
(*   /r/a/g            X, q                                                *)
(*   /r/a/h            x, q:1:y      (present or not)                      *)
(*   /r/d-1-e          y, x          (present or not)                      *)
(*   /r/node_modules/c x                                                   *)
(***************************************************************************)
MaxGrepItems == 2

nG == <<"g">>
nH == <<"h">>
nDated == <<"d", "-", "1", "-", "e">>

GrepFs(extraInA, extraInR) ==
    (<< >> :> DirNode(<<nR>>)) @@
    (<<nR>> :> DirNode(<<nF, nA>> \o extraInR \o <<NodeModules>>)) @@
    (<<nR, nF>> :> FileNode(<<"x", "\n", "y", "\n", "y", "\n", "y", "\n", "x", "\n">>)) @@
    (<<nR, nA>> :> DirNode(<<nG>> \o extraInA)) @@
    (<<nR, nA, nG>> :> FileNode(<<"X", "\n", "q", "\n">>)) @@
    (IF extraInA = << >> THEN << >>
     ELSE <<nR, nA, nH>> :> FileNode(<<"x", "\n", "q", ":", "1", ":", "y", "\n">>)) @@
    (IF extraInR = << >> THEN << >>
     ELSE <<nR, nDated>> :> FileNode(<<"y", "\n", "x", "\n">>)) @@
    (<<nR, NodeModules>> :> DirNode(<<nC>>)) @@
    (<<nR, NodeModules, nC>> :> FileNode(<<"x", "\n">>))

GrepFsVariants ==
    { GrepFs(inA, inR) : inA \in {<< >>, <<nH>>}, inR \in {<< >>, <<nDated>>} }

GrepParams(path, searchPattern, filePattern, caseInsensitive, contextLines) ==
    [Params(GoodRoot, "grep", path, searchPattern, <<"*">>, 0, 0, 3)
        EXCEPT !.filePattern = filePattern,
               !.caseInsensitive = caseInsensitive,
               !.contextLines = contextLines]

\* $(rm /r/f) and $(rm /zz)q
RmF == <<"$", "(", "r", "m", " ", Sep, "r", Sep, "f", ")">>
RmNothingQ == <<"$", "(", "r", "m", " ", Sep, "z", "z", ")", "q">>

\* x, q, z (in no file), an unclosed group, a closed group, and the two above
SearchPatterns == { <<"x">>, <<"q">>, <<"z">>, <<"(">>, <<"(", "x", ")">>, RmF, RmNothingQ }

\* the paths "", a, f (a file), zz (missing); the file patterns * and g
GrepItemParams ==
    { GrepParams(path, sp, fp, ci, n) :
        path \in { << >>, nA, nF, <<"z", "z">> }, sp \in SearchPatterns,
        fp \in { <<"*">>, <<"g">> }, ci \in BOOLEAN, n \in {0, 1} }

InitGrep ==
    /\ fs \in GrepFsVariants
    /\ pc = "item"
    /\ call = NoCall
    /\ ret = NoRet
    /\ stack = << >>
    /\ results = << >>
    /\ lines = << >>
    /\ fsLog = << >>
    /\ \E c \in BOOLEAN, n \in 1..MaxGrepItems :
          node = [continueOnFail |-> c, length |-> n, items |-> << >>]
    /\ itemIndex = 0
    /\ returnData = << >>

\* the items before the last search for x, or remove /r/f on the way
EarlierGrepParams ==
    { GrepParams(<< >>, sp, <<"*">>, FALSE, 0) : sp \in {<<"x">>, RmF} }

GrepItem == ExecItemOf(IF itemIndex + 1 < node.length THEN EarlierGrepParams ELSE GrepItemParams)

SpecGrep == InitGrep /\ [][GrepItem]_vars


(***************************************************************************)
(* What the parameters of an item mean, name by name (as for C1), and what *)
(* became of each item                                                     *)
(***************************************************************************)
NamesOf(str) == Split(str, Sep)

ItemRoot(p) == Walk(IF FromTop(NamesOf(p.rootPath)) THEN << >> ELSE Cwd, NamesOf(p.rootPath))

ItemTarget(p) == Walk(IF FromTop(NamesOf(p.path)) THEN << >> ELSE ItemRoot(p), NamesOf(p.path))

RootIsDirectory(p) ==
    /\ p.rootPath # << >>
    /\ LET stats == StatSync(fs, ItemRoot(p)) IN stats.ok /\ stats.kind = "dir"

TargetOutside(p) == ~IsNamePrefix(ItemRoot(p), ItemTarget(p))

TargetMissing(p) == ~StatSync(fs, ItemTarget(p)).ok

\* the items handed over so far, counted from 1
Items == 1..Len(node.items)

\* item k has been dealt with: its record is pushed, or its error has ended
\* the call
Completed(k) == k <= Len(returnData) \/ (pc = "thrown" /\ k = Len(node.items))

\* item k ended in the error `kind`: thrown out of execute, or recorded when
\* execution continues on failure
Raises(k, kind) ==
    IF k <= Len(returnData)
    THEN /\ "error" \in DOMAIN returnData[k].json
         /\ returnData[k].json.error.error = kind
    ELSE /\ pc = "thrown"
         /\ ret.threw
         /\ ret.error = kind
         /\ ret.itemIndex = k - 1

\* the accesses made while item k was processed
AccessesOf(k) == { fsLog[i] : i \in { j \in 1..Len(fsLog) : fsLog[j].item = k - 1 } }

OnlyRootStat(k) ==
    \A a \in AccessesOf(k) : a.op = "stat" /\ a.path = ItemRoot(node.items[k])

Contains(str, part) ==
    \E i \in 1..(Len(str) - Len(part) + 1) : SubSeq(str, i, i + Len(part) - 1) = part

\* C2 as stated: for each of the six operations under a root that passed the
\* root checks, every access made for the item lies inside the root, and an
\* item whose path leads outside the root ends in the path-traversal error,
\* with no result record and with no access other than the stat of the root.
C2_OutsidePathRaisesPathTraversal ==
    \A k \in Items :
        LET p == node.items[k]
        IN  (p.operation \in Operations /\ RootIsDirectory(p)) =>
               /\ \A a \in AccessesOf(k) : IsNamePrefix(ItemRoot(p), a.path)
               /\ (Completed(k) /\ TargetOutside(p)) =>
                     /\ Raises(k, "PathTraversal")
                     /\ OnlyRootStat(k)

\* C2, amended: as C2, except that grep with an empty searchPattern ends in
\* the error for the missing searchPattern, which the code checks before the
\* path; still no result record and no access beyond the stat of the root.
C2_OutsidePathRaisesBeforeAccess ==
    \A k \in Items :
        LET p == node.items[k]
        IN  (p.operation \in Operations /\ RootIsDirectory(p)) =>
               /\ \A a \in AccessesOf(k) : IsNamePrefix(ItemRoot(p), a.path)
               /\ (Completed(k) /\ TargetOutside(p)) =>
                     /\ Raises(k, IF p.operation = "grep" /\ p.searchPattern = << >>
                                  THEN "SearchPatternRequired" ELSE "PathTraversal")
                     /\ OnlyRootStat(k)

\* a tree of ../rx under the root /r, execution continuing on failure: the
\* item is answered by an error record naming the traversal, after an item
\* that listed a directory inside the root
C2_Witness ==
    /\ Len(node.items) = 2
    /\ Completed(2)
    /\ node.continueOnFail
    /\ node.items[2].operation = "tree"
    /\ node.items[2].path = <<".", ".", Sep>> \o nRX
    /\ Raises(2, "PathTraversal")
    /\ returnData[2].json.error.detail.resolved = <<Sep>> \o nRX
    /\ node.items[1].operation = "listDirectory"
    /\ \E a \in AccessesOf(1) : a.op = "readdir"

\* C3: for each of the six operations, an item whose path leads to a place
\* inside the root where nothing exists does not raise: its record carries
\* found false (exists false for fileInfo) and a message, and for readFile
\* the message contains the path asked for.
C3_MissingTargetYieldsNotFound ==
    \A k \in Items :
        LET p == node.items[k]
            json == returnData[k].json
        IN  (/\ Completed(k)
             /\ p.operation \in Operations
             /\ RootIsDirectory(p)
             /\ ~TargetOutside(p)
             /\ TargetMissing(p)
             /\ p.operation = "grep" => p.searchPattern # << >>) =>
               /\ k <= Len(returnData)
               /\ "error" \notin DOMAIN json
               /\ IF p.operation = "fileInfo"
                  THEN "exists" \in DOMAIN json /\ ~json.exists
                  ELSE "found" \in DOMAIN json /\ ~json.found
               /\ "message" \in DOMAIN json
               /\ json.message # << >>
               /\ p.operation = "readFile" => Contains(json.message, p.path)

\* the same, of the four operations that stat their target
MissingTargetNotFoundWhereStatted ==
    \A k \in Items :
        LET p == node.items[k]
            json == returnData[k].json
        IN  (/\ Completed(k)
             /\ p.operation \in {"listDirectory", "readFile", "fileInfo", "tree"}
             /\ RootIsDirectory(p)
             /\ ~TargetOutside(p)
             /\ TargetMissing(p)) =>
               /\ k <= Len(returnData)
               /\ "error" \notin DOMAIN json
               /\ IF p.operation = "fileInfo"
                  THEN "exists" \in DOMAIN json /\ ~json.exists
                  ELSE "found" \in DOMAIN json /\ ~json.found
               /\ "message" \in DOMAIN json
               /\ p.operation = "readFile" => Contains(json.message, p.path)

\* the structural error the parameters of an item call for, the root checks
\* first
StructuralError(p) ==
    IF p.rootPath = << >> THEN "RootRequired"
    ELSE IF ~RootIsDirectory(p) THEN "RootInvalid"
    ELSE IF p.operation \notin Operations THEN "UnknownOperation"
    ELSE IF p.operation = "grep" /\ p.searchPattern = << >> THEN "SearchPatternRequired"
    ELSE "none"

\* C4: with continue-on-failure off, an item with an empty rootPath, a root
\* that is no directory, an empty searchPattern for grep or an unknown
\* operation makes execute throw that error: the call ends there, nothing is
\* returned, and the root errors win over whatever the operation would have
\* answered or raised (no access beyond the stat of the root is made).
C4_StructuralErrorsAbort ==
    ~node.continueOnFail =>
        /\ \A k \in Items :
              LET p == node.items[k]
              IN  StructuralError(p) # "none" =>
                     /\ k = Len(node.items)
                     /\ Raises(k, StructuralError(p))
                     /\ pc = "thrown"
                     /\ "value" \notin DOMAIN ret
                     /\ Len(returnData) = k - 1
                     /\ OnlyRootStat(k)
                     /\ p.rootPath = << >> => AccessesOf(k) = {}
        /\ pc = "returned" => \A k \in Items : StructuralError(node.items[k]) = "none"

\* the second item asks for a grep without searchPattern of a path outside a
\* root that is a file: the root error is thrown, and the record of the first
\* item is not returned
C4_Witness ==
    /\ ~node.continueOnFail
    /\ Len(node.items) = 2
    /\ pc = "thrown"
    /\ ret.error = "RootInvalid"
    /\ ret.itemIndex = 1
    /\ node.items[2].rootPath = <<Sep>> \o nR \o <<Sep>> \o nC
    /\ node.items[2].operation = "grep"
    /\ node.items[2].searchPattern = << >>
    /\ TargetOutside(node.items[2])
    /\ Len(returnData) = 1
    /\ "found" \in DOMAIN returnData[1].json


(***************************************************************************)
(* What a grep item asks for, read from its parameters and the repository: *)
(* the files it scans and the lines of them it is to report                *)
(***************************************************************************)
\* nothing has been removed from the repository since the call began
Intact == fs \in GrepFsVariants

\* item k is a grep that passed the checks of root, pattern and path, and
\* has been dealt with
GrepItemDone(k) ==
    LET p == node.items[k]
    IN  /\ p.operation = "grep"
        /\ p.searchPattern # << >>
        /\ RootIsDirectory(p)
        /\ ~TargetOutside(p)
        /\ Completed(k)

\* item k ended in an error
RaisesAny(k) ==
    IF k <= Len(returnData) THEN "error" \in DOMAIN returnData[k].json
    ELSE pc = "thrown" /\ ret.threw /\ ret.itemIndex = k - 1

\* item k ended in an error whose message holds `text`
RaisesNaming(k, text) ==
    IF k <= Len(returnData)
    THEN /\ "error" \in DOMAIN returnData[k].json
         /\ Contains(returnData[k].json.error.detail, text)
    ELSE /\ pc = "thrown" /\ ret.threw /\ ret.itemIndex = k - 1
         /\ Contains(ret.detail, text)

Occurrences(str, c) == Cardinality({ i \in 1..Len(str) : str[i] = c })

\* a group is opened and never closed
UnclosedGroup(pattern) == Occurrences(pattern, "(") > Occurrences(pattern, ")")

\* no character of the text means anything to a shell
ShellInert(text) == \A i \in 1..Len(text) : text[i] \notin {"$", "\"", "\\"}

\* the files a grep with the parameters p scans: the target when it is a
\* file, else the files below it that lie in no excluded directory and
\* whose names the file pattern admits
ScannedFiles(p) ==
    { f \in DOMAIN fs :
        /\ fs[f].kind = "file"
        /\ IsNamePrefix(ItemTarget(p), f)
        /\ \A i \in (Len(ItemTarget(p)) + 1)..(Len(f) - 1) : f[i] \notin ExcludedDirs
        /\ p.filePattern \in {<< >>, <<"*">>, f[Len(f)]} }

\* the lines a grep with the parameters p is to report: of every scanned
\* file, the lines the pattern matches and the lines at most contextLines
\* away from one, the latter as context
ReportedLines(p) ==
    UNION { { [file |-> JoinWith(SubSeq(f, Len(ItemRoot(p)) + 1, Len(f)), <<Sep>>),
               lineNumber |-> n,
               content |-> FileLines(fs[f].content)[n],
               context |-> ~Selects(p.searchPattern, FileLines(fs[f].content)[n], p.caseInsensitive)] :
              n \in { n \in 1..Len(FileLines(fs[f].content)) :
                        \E m \in 1..Len(FileLines(fs[f].content)) :
                            /\ m - n <= p.contextLines
                            /\ n - m <= p.contextLines
                            /\ Selects(p.searchPattern, FileLines(fs[f].content)[m], p.caseInsensitive) } } :
            f \in ScannedFiles(p) }

\* the entries of a result, as reported lines
RecordedLines(result) ==
    { [file |-> result.matches[i].file,
       lineNumber |-> result.matches[i].lineNumber,
       content |-> result.matches[i].content,
       context |-> "isContext" \in DOMAIN result.matches[i] /\ result.matches[i].isContext] :
      i \in 1..Len(result.matches) }

\* C12: a grep whose search pattern is malformed as a regular expression (a
\* group opened and never closed) ends in an error that names the pattern,
\* and never in a result record.
C12_MalformedPatternRaises ==
    Intact =>
        \A k \in Items :
            (GrepItemDone(k) /\ UnclosedGroup(node.items[k].searchPattern)) =>
                RaisesNaming(k, node.items[k].searchPattern)

\* C13: a grep whose pattern matches no line of any scanned file does not
\* raise, and its result has totalMatches 0, filesWithMatches 0, an empty
\* matchesByFile and an empty matches list.
C13_NoMatchYieldsEmptyResult ==
    Intact =>
        \A k \in Items :
            (/\ GrepItemDone(k)
             /\ ~UnclosedGroup(node.items[k].searchPattern)
             /\ ~TargetMissing(node.items[k])
             /\ ReportedLines(node.items[k]) = {}) =>
                /\ ~RaisesAny(k)
                /\ k <= Len(returnData)
                /\ returnData[k].json.totalMatches = 0
                /\ returnData[k].json.filesWithMatches = 0
                /\ DOMAIN returnData[k].json.matchesByFile = {}
                /\ returnData[k].json.matches = << >>

\* C14: with contextLines above 0, the entries of a grep result are the
\* lines to report: the matching lines without the context flag, their
\* neighbours with it, each under the relative path of its file and its
\* 1-based line number, whatever the line or the path contains.  (Stated
\* here for patterns that mean nothing to a shell.)
C14_ContextLinesRecorded ==
    Intact =>
        \A k \in Items :
            (/\ GrepItemDone(k)
             /\ k <= Len(returnData)
             /\ ~RaisesAny(k)
             /\ ShellInert(node.items[k].searchPattern)
             /\ ~UnclosedGroup(node.items[k].searchPattern)
             /\ ~TargetMissing(node.items[k])
             /\ fs[ItemTarget(node.items[k])].kind = "dir"
             /\ node.items[k].contextLines > 0) =>
                RecordedLines(returnData[k].json) = ReportedLines(node.items[k])

\* C15: in a grep result, totalMatches is the number of entries without the
\* context flag, filesWithMatches the number of distinct files with at least
\* one such entry, and matchesByFile holds, file by file, the entries of
\* that file in the order of the matches list.
C15_SummaryCounts ==
    \A k \in Items :
        (GrepItemDone(k) /\ k <= Len(returnData) /\ ~RaisesAny(k)) =>
            LET result == returnData[k].json
                plain == { i \in 1..Len(result.matches) :
                             ~("isContext" \in DOMAIN result.matches[i] /\ result.matches[i].isContext) }
                files == { result.matches[i].file : i \in 1..Len(result.matches) }
            IN  /\ result.totalMatches = Cardinality(plain)
                /\ result.filesWithMatches = Cardinality({ result.matches[i].file : i \in plain })
                /\ DOMAIN result.matchesByFile = files
                /\ \A f \in files :
                      LET of == SelectSeq(result.matches, LAMBDA m : m.file = f)
                      IN  /\ Len(result.matchesByFile[f]) = Len(of)
                          /\ \A j \in 1..Len(of) :
                                /\ result.matchesByFile[f][j].lineNumber = of[j].lineNumber
                                /\ result.matchesByFile[f][j].content = of[j].content
                                /\ result.matchesByFile[f][j].isContext =
                                      ("isContext" \in DOMAIN of[j] /\ of[j].isContext)


\* C20: no operation creates, changes, renames or removes anything: whatever
\* the parameters of the items of a call are (searchPattern and filePattern
\* of grep included), every step leaves the filesystem as it was.
C20_FilesystemNeverChanges == [][fs' = fs]_vars


(***************************************************************************)
(* SpecWalk: the two traversals, called directly on every variant of the   *)
(* tree                                                                    *)
(***************************************************************************)
SpecWalk == (InitTree \/ InitFindDirect) /\ [][NextTree \/ NextFindDirect]_vars

\* the directories a traversal tried to read and could not
FailedReads == { d \in ReadDirs : ~ReaddirSync(fs, d).ok }

IsPlaceholder(line) == LineBody(line) = PermissionDenied

\* C16: a directory that cannot be read does not end a traversal.  buildTree
\* returns with exactly one placeholder line for it, right below the line of
\* the directory (alone when it is the directory of the call), and with the
\* lines of every entry that lies within the depth in directories that can
\* be read, the later siblings of the directory and of its ancestors among
\* them.  findFilesRecursive returns with no path from below it and with
\* every matching file of the directories that can be read (when the cap is
\* not reached).
C16_UnreadableDirDoesNotAbort ==
    /\ BuildTreeDone =>
          /\ pc = call.returnTo
          /\ Cardinality({ i \in 1..Len(lines) : IsPlaceholder(lines[i]) }) = Cardinality(FailedReads)
          /\ \A u \in FailedReads :
                IF u = call.dirPath THEN lines = <<PermissionDenied>>
                ELSE \E i \in EntryLines(lines) :
                        /\ LinePath(lines, i, call.dirPath) = u
                        /\ i < Len(lines)
                        /\ IsPlaceholder(lines[i + 1])
                        /\ LineDepth(lines[i + 1]) = LineDepth(lines[i]) + 1
          /\ \A p \in VisibleBelow(call.dirPath, call.maxDepth) :
                Reachable(call.dirPath, p) => p \in EmittedPaths
    /\ FindDone =>
          /\ pc = call.returnTo
          /\ \A i \in 1..Len(results) : \A u \in FailedReads :
                ~IsNamePrefix(u, EntryOf(results[i]))
          /\ Cardinality(MatchingReachable) < call.maxResults =>
                \A p \in MatchingReachable : PathRelative(call.rootPath, p) \in ResultSet

\* a finished tree of depth 3 below /r where /r/a/b cannot be read: the
\* placeholder stands below b, and b's later sibling d and the entries of e
\* after it are shown
C16_Witness ==
    /\ BuildTreeDone
    /\ call.dirPath = RootDir /\ call.maxDepth = 3
    /\ FailedReads = { <<nR, nA, nB>> }
    /\ \E i \in EntryLines(lines) :
          /\ LinePath(lines, i, RootDir) = <<nR, nA, nB>>
          /\ IsPlaceholder(lines[i + 1])
          /\ \E j \in EntryLines(lines) : j > i + 1 /\ LinePath(lines, j, RootDir) = <<nR, nA, nD>>
          /\ \E j \in EntryLines(lines) : j > i + 1 /\ LinePath(lines, j, RootDir) = <<nR, nE, nF>>


\* the error the processing of an item with the parameters p raises, "none"
\* when it raises none
ItemError(p) ==
    LET structural == StructuralError(p)
    IN  IF structural # "none" THEN structural
        ELSE IF TargetOutside(p) THEN "PathTraversal"
        ELSE IF /\ p.operation = "listDirectory"
                /\ LET stats == StatSync(fs, ItemTarget(p))
                   IN  stats.ok /\ stats.kind = "dir" /\ ~ReaddirSync(fs, ItemTarget(p)).ok
        THEN "Error"
        ELSE "none"

\* C17: with continue-on-failure on, execute never throws and returns one
\* record per item in the order of the items: for an item that raises, a
\* record with the error's message, paired with the item; for every other
\* item, later ones included, the record of its operation.  With
\* continue-on-failure off, the first item that raises ends the call in
\* that error and nothing is returned, the records of earlier items
\* included.
C17_ContinueOnFail ==
    LET errors == [k \in Items |-> ItemError(node.items[k])]
    IN  /\ node.continueOnFail =>
              /\ pc # "thrown"
              /\ Len(returnData) \in {Len(node.items), Len(node.items) - 1}
              /\ pc = "returned" =>
                    /\ Len(returnData) = node.length
                    /\ Len(node.items) = node.length
                    /\ ret = Returned(<<returnData>>)
              /\ \A k \in 1..Len(returnData) :
                    LET p == node.items[k]
                        record == returnData[k]
                    IN  IF errors[k] # "none"
                        THEN /\ DOMAIN record.json = {"error"}
                             /\ record.json.error.error = errors[k]
                             /\ record.json.error.detail # << >>
                             /\ record.pairedItem = k - 1
                        ELSE /\ "error" \notin DOMAIN record.json
                             /\ record.json.operation = p.operation
                             /\ record.json.path = OrDot(p.path) \/ record.json.path = p.path
        /\ ~node.continueOnFail =>
              /\ \A k \in Items :
                    errors[k] # "none" =>
                        /\ k = Len(node.items)
                        /\ pc = "thrown"
                        /\ Raises(k, errors[k])
                        /\ "value" \notin DOMAIN ret
                        /\ Len(returnData) = k - 1
              /\ pc = "returned" =>
                    /\ \A k \in Items : errors[k] = "none"
                    /\ Len(returnData) = node.length
                    /\ ret = Returned(<<returnData>>)

\* a call of three items with continue-on-failure on has returned: the
\* second item raised the path-traversal error and has its error record, the
\* first and the third have the records of their operations
C17_Witness ==
    /\ node.continueOnFail
    /\ pc = "returned"
    /\ Len(returnData) = 3
    /\ ItemError(node.items[1]) = "none"
    /\ ItemError(node.items[2]) = "PathTraversal"
    /\ ItemError(node.items[3]) = "none"
    /\ "error" \in DOMAIN returnData[2].json
    /\ returnData[1].json.operation = "listDirectory"
    /\ returnData[3].json.operation = "readFile"
    /\ returnData[3].json.found


(***************************************************************************)
(* SpecRead: execute over readFile items, on the repository of SpecGrep    *)
(***************************************************************************)
MaxLineOffset == 7
MaxLinesBound == 7

\* the paths f, a/g, a (a directory), zz (missing), ""
ReadItemParams ==
    { Params(GoodRoot, "readFile", path, << >>, <<"*">>, maxLines, lineOffset, 3) :
        path \in { nF, nA \o <<Sep>> \o nG, nA, <<"z", "z">>, << >> }, maxLines \in 0..MaxLinesBound, lineOffset \in 0..MaxLineOffset }

\* the items before the last read the second line of f, or nothing
EarlierReadParams ==
    { Params(GoodRoot, "readFile", path, << >>, <<"*">>, 1, 1, 3) : path \in {nF, <<"z", "z">>} }

ReadItem == ExecItemOf(IF itemIndex + 1 < node.length THEN EarlierReadParams ELSE ReadItemParams)

SpecRead == InitGrep /\ [][ReadItem]_vars

\* the number of lines of a text: one more than its line feeds
LineCount(content) == Occurrences(content, "\n") + 1

\* line n of a text: the characters that n - 1 line feeds precede and that
\* are no line feeds
LineAt(content, n) ==
    LET at == { i \in 1..Len(content) :
                  /\ content[i] # "\n"
                  /\ Occurrences(SubSeq(content, 1, i), "\n") = n - 1 }
    IN  IF at = {} THEN << >>
        ELSE SubSeq(content, CHOOSE i \in at : \A j \in at : i <= j,
                             CHOOSE i \in at : \A j \in at : j <= i)

\* C18: a readFile that finds its file returns the lines of the file from
\* the 0-based index lineOffset on, the first maxLines of them when maxLines
\* is above 0 and all of them when it is 0; every entry carries the 1-based
\* number its line has in the file; linesReturned is the number of entries
\* and totalLines the number of lines of the whole file.
C18_ReadFileWindow ==
    \A k \in 1..Len(returnData) :
        LET p == node.items[k]
            result == returnData[k].json
            content == fs[ItemTarget(p)].content
            total == LineCount(content)
            last == IF p.maxLines > 0 /\ p.lineOffset + p.maxLines < total
                    THEN p.lineOffset + p.maxLines ELSE total
            count == IF last > p.lineOffset THEN last - p.lineOffset ELSE 0
        IN  (p.operation = "readFile" /\ "found" \in DOMAIN result /\ result.found) =>
               /\ result.totalLines = total
               /\ result.linesReturned = count
               /\ Len(result.lines) = count
               /\ \A j \in 1..count :
                     /\ result.lines[j].lineNumber = p.lineOffset + j
                     /\ result.lines[j].content = LineAt(content, p.lineOffset + j)

\* lines 3 and 4 of the six lines of f, read with lineOffset 2 and maxLines 2
C18_Witness ==
    /\ Len(returnData) = 1
    /\ node.items[1].path = nF
    /\ node.items[1].lineOffset = 2
    /\ node.items[1].maxLines = 2
    /\ returnData[1].json.found
    /\ returnData[1].json.totalLines = 6
    /\ returnData[1].json.linesReturned = 2
    /\ returnData[1].json.lines[1].lineNumber = 3
    /\ returnData[1].json.lines[2].lineNumber = 4


(***************************************************************************)
(* SpecTreeOp: execute over one tree item, on the trees of SpecExec and on *)
(* a chain /r/k/k/.../k of ChainDepth entries, the last one a file          *)
(***************************************************************************)
ChainDepth == 11
MaxRequestedDepth == 12

nK == <<"k">>

DeepFs ==
    (<< >> :> DirNode(<<nR>>)) @@
    [c \in { <<nR>> \o [i \in 1..n |-> nK] : n \in 0..ChainDepth } |->
        IF Len(c) = ChainDepth + 1 THEN FileNode(<<"x">>) ELSE DirNode(<<nK>>)]

TreeItemParams ==
    { Params(GoodRoot, "tree", path, << >>, <<"*">>, 0, 0, maxDepth) :
        path \in { << >>, nA, nC, <<"z", "z">>, nK, <<".">>, nA \o <<Sep>>,
                   nA \o <<Sep>> \o nB },
        maxDepth \in (-1)..MaxRequestedDepth }

InitTreeOp ==
    /\ fs \in ExecFsVariants \cup {DeepFs}
    /\ pc = "item"
    /\ call = NoCall
    /\ ret = NoRet
    /\ stack = << >>
    /\ results = << >>
    /\ lines = << >>
    /\ fsLog = << >>
    /\ \E c \in BOOLEAN : node = [continueOnFail |-> c, length |-> 1, items |-> << >>]
    /\ itemIndex = 0
    /\ returnData = << >>

TreeItem == ExecItemOf(TreeItemParams)

NextTreeOp == TreeItem \/ TreeEnter \/ TreeLoop \/ ExecTreeResult

SpecTreeOp == InitTreeOp /\ [][NextTreeOp]_vars

\* the depth a tree is to have for a requested maxDepth
EffectiveDepth(requested) ==
    CASE requested < 1 -> 1
      [] requested > 10 -> 10
      [] OTHER -> requested

\* C19: whatever maxDepth a tree item asks for, the traversal runs with the
\* effective depth (1 for values below 1, 10 for values above 10, the value
\* itself otherwise), the result reports that depth, and the tree shows the
\* entries down to that depth and none below it.
C19_TreeDepthClamped ==
    \A k \in Items :
        LET p == node.items[k]
            depth == EffectiveDepth(p.maxDepth)
        IN  p.operation = "tree" =>
               /\ depth \in 1..10
               /\ BuildTreeCalled =>
                     /\ call.maxDepth = depth
                     /\ \A i \in EntryLines(lines) : LineDepth(lines[i]) <= depth
                     /\ \A d \in ReadDirs : Len(d) - Len(call.dirPath) < depth
               /\ (BuildTreeCalled /\ pc = "treeResult") =>
                     EmittedPaths = { e \in VisibleBelow(call.dirPath, depth) :
                                         Reachable(call.dirPath, e) }
               /\ (k <= Len(returnData) /\ "found" \in DOMAIN returnData[k].json
                   /\ returnData[k].json.found) =>
                     /\ returnData[k].json.maxDepth = depth
                     /\ returnData[k].json.treeLines = <<Head(returnData[k].json.treeLines)>> \o lines
                     /\ \A i \in EntryLines(lines) : LineDepth(lines[i]) <= depth

\* a tree of the chain asked for with maxDepth 12: the result reports 10 and
\* shows the ten directories down to depth 10, not the file at depth 11
C19_Witness ==
    /\ fs = DeepFs
    /\ Len(returnData) = 1
    /\ node.items[1].maxDepth = 12
    /\ node.items[1].path = << >>
    /\ returnData[1].json.found
    /\ returnData[1].json.maxDepth = 10
    /\ Len(returnData[1].json.treeLines) = 11
    /\ Cardinality(VisibleBelow(RootDir, 11)) = 11


\* the names of the entries of dir that remain when the hidden ones and
\* node_modules are left out
Remaining(dir) ==
    { fs[dir].entries[i] : i \in { j \in 1..Len(fs[dir].entries) :
                                     /\ fs[dir].entries[j][1] # "."
                                     /\ fs[dir].entries[j] # NodeModules } }

\* the lines of the level of line i: the entries of the same directory
LevelOf(ls, i) == { j \in EntryLines(ls) : SameLevel(ls, i, j) }

\* C21: in a finished tree, the lines of a level are the entries of the
\* directory that remain after filtering; the last of them, and only it, has
\* the connector corner-dash-dash-space, and the lines below it continue its
\* prefix with four spaces; every other has tee-dash-dash-space, and the
\* lines below it continue its prefix with bar and three spaces.
C21_LastEntryConnector ==
    BuildTreeDone =>
        \A i \in EntryLines(lines) :
            LET isLast == \A j \in LevelOf(lines, i) : j <= i
                depth == LineDepth(lines[i])
                dir == SubSeq(LinePath(lines, i, call.dirPath), 1, Len(call.dirPath) + depth - 1)
            IN  /\ { LineName(lines[j]) : j \in LevelOf(lines, i) } = Remaining(dir)
                /\ Cardinality(LevelOf(lines, i)) = Cardinality(Remaining(dir))
                /\ LineConnector(lines[i]) = IF isLast THEN <<"U+2514", "U+2500", "U+2500", " ">>
                                             ELSE <<"U+251C", "U+2500", "U+2500", " ">>
                /\ \A k \in (i + 1)..Len(lines) :
                      (LineDepth(lines[k]) > depth
                       /\ \A m \in (i + 1)..k : LineDepth(lines[m]) > depth) =>
                          /\ SubSeq(lines[k], 1, 4 * (depth - 1)) = SubSeq(lines[i], 1, 4 * (depth - 1))
                          /\ SubSeq(lines[k], 4 * (depth - 1) + 1, 4 * depth) =
                                IF isLast THEN <<" ", " ", " ", " ">>
                                ELSE <<"U+2502", " ", " ", " ">>

\* a finished tree of depth 3 below /r where /r/a holds b and the hidden .k,
\* which sorts after b: b is the only line of its level and has the corner,
\* and the line of its file c continues with bar (a is not last in /r) and
\* four spaces
C21_Witness ==
    /\ BuildTreeDone
    /\ fs = HiddenLastFs
    /\ call.dirPath = RootDir /\ call.maxDepth = 3
    /\ SortEntries(ReaddirSync(fs, <<nR, nA>>).entries)[2].name = nHiddenFile
    /\ \E i \in EntryLines(lines) :
          /\ LinePath(lines, i, RootDir) = <<nR, nA, nB>>
          /\ lines[i] = <<"U+2502", " ", " ", " ", "U+2514", "U+2500", "U+2500", " ">> \o nB \o <<Sep>>
          /\ lines[i + 1] = <<"U+2502", " ", " ", " ", " ", " ", " ", " ",
                              "U+2514", "U+2500", "U+2500", " ">> \o nC


\* C23: in the result of a tree that found its directory, line zero of
\* treeLines is the name of the target directory followed by one "/", the
\* lines after it are the output of buildTree in order, and the tree string
\* is these lines, in this order, one per line.
C23_TreeResultLines ==
    \A k \in 1..Len(returnData) :
        LET p == node.items[k]
            result == returnData[k].json
            target == ItemTarget(p)
        IN  (p.operation = "tree" /\ "found" \in DOMAIN result /\ result.found) =>
               /\ result.treeLines[1] = target[Len(target)] \o <<Sep>>
               /\ Tail(result.treeLines) = lines
               /\ result.tree = JoinWith(result.treeLines, <<"\n">>)


(***************************************************************************)
(* SpecRace: a traversal and another process that changes the tree.  The   *)
(* traversal holds the Dirent objects of the directories it has listed;    *)
(* the other process deletes or replaces, once, a subdirectory that one of *)
(* these lists still holds and that the traversal has not read yet.        *)
(***************************************************************************)
WriterOps == { "unlink", "toFile", "toDir" }

\* what the other process does to the entry w: rm -r w, or rm -r w and
\* then touch w, or rm -r w and then mkdir w and touch w/s
Changed(fsys, w, op) ==
    LET parent == SubSeq(w, 1, Len(w) - 1)
        outside == { q \in DOMAIN fsys : ~IsNamePrefix(w, q) }
    IN  CASE op = "unlink" ->
               [p \in outside |->
                   IF p = parent
                   THEN [fsys[p] EXCEPT !.entries = SelectSeq(@, LAMBDA name : name # w[Len(w)])]
                   ELSE fsys[p]]
          [] op = "toFile" ->
               [p \in outside \cup {w} |-> IF p = w THEN FileNode(<<"x">>) ELSE fsys[p]]
          [] op = "toDir" ->
               [p \in outside \cup {w, Append(w, nS)} |->
                   IF p = w THEN DirNode(<<nS>>)
                   ELSE IF p = Append(w, nS) THEN FileNode(<<"x">>)
                   ELSE fsys[p]]

\* the subdirectories that a listing on the stack holds and that are still
\* to be read: the entries the loops have not come to, and the directory the
\* top frame is about to read
ListedUnread ==
    UNION { { PathJoin(stack[k].dirPath, stack[k].entries[i].name) :
                i \in { j \in 1..Len(stack[k].entries) :
                           /\ j >= stack[k].index
                           /\ IsDirectory(stack[k].entries[j])
                           /\ ~Ignored(stack[k].entries[j].name) } } :
            k \in 1..Len(stack) }
    \cup (IF Len(stack) > 1 /\ Head(stack).stage = "enter" THEN { Head(stack).dirPath } ELSE {})

Written == { fsLog[i].path : i \in { k \in 1..Len(fsLog) : fsLog[k].op \in WriterOps } }

ExternalWriter ==
    /\ stack # << >>
    /\ Written = {}
    /\ \E w \in ListedUnread \cap DOMAIN fs, op \in WriterOps :
          /\ fs' = Changed(fs, w, op)
          /\ fsLog' = Append(fsLog, Access(op, w))
    /\ UNCHANGED <<pc, call, ret, stack, results, lines, node, itemIndex, returnData>>

NextRace == NextTree \/ NextFindDirect \/ ExternalWriter

SpecRace == (InitTree \/ InitFindDirect) /\ [][NextRace]_vars

\* not the changed entry and nothing below it
Elsewhere(p) == \A w \in Written : ~IsNamePrefix(w, p)

\* C22: when another process deletes or replaces a subdirectory after the
\* traversal listed it and before the traversal reads it, the call still
\* returns to its caller, and the entries of every other directory are
\* reported: buildTree shows every entry within the depth that lies in a
\* readable directory outside the changed one, findFilesRecursive collects
\* every matching file outside it (when the cap is not reached).
C22_ChangedChildIsSkipped ==
    /\ (BuildTreeDone /\ Written # {}) =>
          /\ pc = call.returnTo
          /\ \A p \in VisibleBelow(call.dirPath, call.maxDepth) :
                (Elsewhere(p) /\ Reachable(call.dirPath, p)) => p \in EmittedPaths
    /\ (FindDone /\ Written # {}) =>
          /\ pc = call.returnTo
          /\ Len(results) < call.maxResults =>
                \A p \in MatchingReachable :
                    Elsewhere(p) => PathRelative(call.rootPath, p) \in ResultSet


\* a finished tree of depth 3 below /r where /r/a/b was deleted after /r/a
\* was listed: b is shown with the placeholder below it, and its later
\* sibling d and the entries of e are shown after it
C22_Witness ==
    /\ BuildTreeDone
    /\ call.dirPath = RootDir /\ call.maxDepth = 3
    /\ Written = { <<nR, nA, nB>> }
    /\ <<nR, nA, nB>> \notin DOMAIN fs
    /\ <<nR, nA>> \in ReadDirs /\ <<nR, nA, nB>> \in ReadDirs
    /\ pc = call.returnTo
    /\ \E i \in EntryLines(lines) :
          /\ LinePath(lines, i, RootDir) = <<nR, nA, nB>>
          /\ IsPlaceholder(lines[i + 1])
          /\ \E j \in EntryLines(lines) : j > i + 1 /\ LinePath(lines, j, RootDir) = <<nR, nA, nD>>
          /\ \E j \in EntryLines(lines) : j > i + 1 /\ LinePath(lines, j, RootDir) = <<nR, nE, nF>>


(***************************************************************************)
(* SpecCycle: the two traversals on a tree whose symbolic links form       *)
(* cycles, and on the trees without.  The code is synchronous: a call that *)
(* can take a step takes it.                                               *)
(*                                                                         *)
(*   /r/a/b/u -> /r        a link to an ancestor                           *)
(*   /r/e/p -> /r/e/q      /r/e/q -> /r/e/p      two links to each other   *)
(***************************************************************************)
nU == <<"u">>
nP == <<"p">>
nQ == <<"q">>

CycleFs ==
    (<<nR, nA, nB, nU>> :> LinkNode(<<nR>>)) @@
    (<<nR, nE, nP>> :> LinkNode(<<nR, nE, nQ>>)) @@
    (<<nR, nE, nQ>> :> LinkNode(<<nR, nE, nP>>)) @@
    [p \in DOMAIN BaseFs |->
        IF p = <<nR, nA, nB>> THEN DirNode(<<nU, nC>>)
        ELSE IF p = <<nR, nE>> THEN DirNode(<<nP, nF, nQ, nHiddenFile>>)
        ELSE BaseFs[p]]

\* where a call starts: directories, links to directories (followed by
\* readdirSync), a link in a loop, nothing
CycleStarts ==
    { <<nR>>, <<nR, nA>>, <<nR, nL>>, <<nR, nA, nB, nU>>, <<nR, nE, nP>>, <<nR, <<"z", "z">>>> }

InitCycle ==
    /\ InitIdle
    /\ fs \in {CycleFs} \cup FsVariants
    /\ \E dir \in CycleStarts :
          \/ /\ pc = "buildTree"
             /\ \E maxDepth \in 0..MaxTreeDepth :
                   call = [fn |-> "buildTree", dirPath |-> dir, rootPath |-> RootDir,
                           maxDepth |-> maxDepth, caller |-> "test", returnTo |-> "done"]
             /\ stack = <<TreeFrame(dir, 1, << >>)>>
          \/ /\ pc = "findFilesRecursive"
             /\ \E glob \in FindGlobs, maxResults \in (0..MaxResultsBound) \cup {DefaultMaxResults} :
                   call = [fn |-> "findFilesRecursive", dirPath |-> dir,
                           pattern |-> globToRegex(glob), rootPath |-> RootDir,
                           maxResults |-> maxResults, caller |-> "test", returnTo |-> "done"]
             /\ stack = <<FindFrame(dir)>>

\* ENABLED <<TreeEnter>>_vars: every branch of TreeEnter changes the stack
TreeEnterEnabled == pc = "buildTree" /\ stack # << >> /\ Head(stack).stage = "enter"

\* weak fairness of each of the four steps; for TreeEnter it is written out,
\* WF_vars(A) being []<>~ENABLED <<A>>_vars \/ []<><<A>>_vars
SpecCycle ==
    /\ InitCycle
    /\ [][NextTree \/ NextFindDirect]_vars
    /\ WF_vars(TreeLoop) /\ WF_vars(FindEnter) /\ WF_vars(FindLoop)
    /\ ([]<>~TreeEnterEnabled \/ []<><<TreeEnter>>_vars)

\* where a path leads, links followed
RealPath(path) ==
    LET r == Lookup(fs, << >>, path, {}) IN IF r.ok THEN r.path ELSE path

ReadLog == { k \in 1..Len(fsLog) : fsLog[k].op = "readdir" }

\* every name below the start directory on the way to a directory that was
\* read is a directory itself, and no directory was read twice
DescendsOnlyIntoDirectories ==
    /\ \A i \in ReadLog : \A k \in (Len(call.dirPath) + 1)..Len(fsLog[i].path) :
          LET entry == RealPath(call.dirPath)
                         \o SubSeq(fsLog[i].path, Len(call.dirPath) + 1, k)
          IN  entry \in DOMAIN fs /\ fs[entry].kind = "dir"
    /\ \A i, j \in ReadLog : i # j => RealPath(fsLog[i].path) # RealPath(fsLog[j].path)

\* C24: buildTree and findFilesRecursive return on every tree, also when
\* symbolic links form a cycle: they descend only into entries that the
\* listing reports as directories, so no link below the start directory is
\* followed and no directory is read twice in a call.
C24_TraversalsTerminate ==
    /\ []DescendsOnlyIntoDirectories
    /\ <>(stack = << >> /\ pc = call.returnTo)

\* a finished search below /r: the directories b and e that hold the links
\* were read, and the links were tested as files
C24_Witness ==
    /\ FindDone
    /\ call.dirPath = RootDir
    /\ call.maxResults = DefaultMaxResults
    /\ pc = call.returnTo
    /\ { <<nR, nA, nB>>, <<nR, nE>> } \subseteq ReadDirs
    /\ \A link \in { <<nR, nA, nB, nU>>, <<nR, nE, nP>>, <<nR, nE, nQ>> } :
          /\ link \notin ReadDirs
          /\ \E i \in 1..Len(fsLog) : fsLog[i].op = "test" /\ fsLog[i].path = link
    /\ Cardinality(ReadDirs) = 4

====
